---- MODULE Spec2Model ----
(***************************************************************************)
(* State-machine model of the SomniaAgent SDK core                         *)
(* (packages/core/src/SomniaAgent.ts): lifecycle, execute(), metrics,      *)
(* event dispatch through eventemitter3, setState, getState, init and      *)
(* deploy; and of the AgentSimulator built around an agent                 *)
(* (packages/testing/src/AgentSimulator.ts).                               *)
(***************************************************************************)
EXTENDS Integers, Sequences, FiniteSets, TLC

\* ------------------------------------------------------------------ bounds

\* Date.now() ranges over 1..MaxTime
MaxTime == 2
\* cap on metrics.uptime
MaxUptime == 2
\* cap on metrics.totalActions (observations recorded by updateMetrics)
MaxObs == 2
\* number of execute() calls that can be in flight at once
MaxCalls == 2
\* cap on the total number of handler registrations
MaxHandlers == 2
\* cap on start() calls suspended at subscribeToEvents
MaxStartCalls == 1
\* cap on the asynchronous handler invocations that have not settled yet
MaxInflight == 2
\* number of run() calls one simulator can have in progress
MaxRuns == 2

\* blocks in the list of a MockBlockchain, transactions in all its blocks,
\* mining loops asleep at one time
MaxBlocks == 2
MaxTxs == 2
MaxLoops == 1
\* listeners registered on a MockBlockchain
MaxListeners == 1
\* successful executeAction calls on a BaseAgent, and the latest block.timestamp
MaxActions == 2
MaxStamp == 2
\* entries of the registry's agentList
MaxList == 2

\* ------------------------------------------------------------ value sets

Statuses == {"idle", "running", "paused", "error"}

INITIALIZED == "agent:initialized"
STARTED == "agent:started"
STOPPED == "agent:stopped"
PAUSED == "agent:paused"
RESUMED == "agent:resumed"
ERROR == "agent:error"
ACTION_EXECUTED == "agent:action_executed"
STATE_CHANGED == "agent:state_changed"
DEPLOYED == "agent:deployed"

AgentEvents ==
  {INITIALIZED, STARTED, STOPPED, PAUSED, RESUMED, ERROR, ACTION_EXECUTED,
   STATE_CHANGED, DEPLOYED}

\* the registry of known network names
Networks == {"testnet", "mainnet"}

\* actions a caller passes to execute(): 0 stands for null (no action)
Actions == {1, 2}

\* receipts the execution collaborator confirms a transaction with
Receipts ==
  {[hash |-> "0xa", gasUsed |-> 100], [hash |-> "0xb", gasUsed |-> 200]}

\* handlers a caller registers: hOk returns to the emitter (a value, or the
\* promise of an async handler, whether it later resolves or rejects), hThrow
\* throws synchronously
Handlers == {"hOk", "hThrow"}

\* asynchronous handlers: each call runs to its first await, hands the
\* emitter a promise and settles later
AsyncHandlers == {"hA", "hB"}

\* event types the simulator's scenarios inject
ScenarioTypes == {"price_change", "liquidity_event"}

\* names a handler can be registered under
EventNames == AgentEvents \cup ScenarioTypes

\* a scenario event: its type and data.price (0 when the data has no price)
SimEvent(type, price) == [type |-> type, price |-> price]

\* getScenarioEvents: the catalog of predefined scenarios
Scenarios ==
  [normal_trading |->
     <<SimEvent("price_change", 1000), SimEvent("price_change", 1010),
       SimEvent("price_change", 1005)>>,
   market_volatility |->
     <<SimEvent("price_change", 1000), SimEvent("price_change", 1050),
       SimEvent("price_change", 966), SimEvent("price_change", 1082)>>,
   liquidity_crisis |->
     <<SimEvent("liquidity_event", 0), SimEvent("price_change", 1000),
       SimEvent("liquidity_event", 0)>>,
   bull_run |->
     <<SimEvent("price_change", 1000), SimEvent("price_change", 1050),
       SimEvent("price_change", 1134), SimEvent("price_change", 1247)>>]

\* scenario names a simulator is configured with, one of them not in the
\* catalog
ScenarioNames == DOMAIN Scenarios \cup {"nonexistent_scenario_xyz"}

\* a lookup without the fallback: no events for a name not in the catalog
getScenarioEventsStrict(scenario) ==
  IF scenario \in DOMAIN Scenarios THEN Scenarios[scenario] ELSE <<>>

\* scenarios[scenario] || scenarios.normal_trading
getScenarioEvents(scenario) ==
  IF scenario \in DOMAIN Scenarios
    THEN Scenarios[scenario]
    ELSE Scenarios.normal_trading

RunIds == 1 .. MaxRuns

\* what analyze() resolved to: nothing yet
NoDecision == [action |-> "", confidence |-> <<0, 1>>]

\* capabilities a caller supplies with setAI, and the data given to analyze
Capabilities == {"aiBuy", "aiSell"}
AIData == {0, 5, 9}

\* values of the free-form data bag used by setState callers
DataValues == {{}, {<<"x", 1>>}, {<<"y", 2>>}}

\* ------------------------------------------------------------- rationals
\* JavaScript numbers are modelled as exact rationals <<num, den>>, den > 0,
\* in lowest terms.

RECURSIVE GCD(_, _)
GCD(a, b) == IF b = 0 THEN a ELSE GCD(b, a % b)

Abs(a) == IF a < 0 THEN -a ELSE a

Norm(n, d) ==
  LET g == GCD(Abs(n), Abs(d))
      s == IF d < 0 THEN -1 ELSE 1
  IN  IF n = 0 THEN <<0, 1>> ELSE <<s * (n \div g), s * (d \div g)>>

Rat(n) == <<n, 1>>
RAdd(p, q) == Norm(p[1] * q[2] + q[1] * p[2], p[2] * q[2])
RMul(p, q) == Norm(p[1] * q[1], p[2] * q[2])
RDiv(p, q) == Norm(p[1] * q[2], p[2] * q[1])

\* ----------------------------------------------------------------- state

VARIABLES
  config,      \* this.config: name/type are fixed, the rest as below
  provider,    \* this.provider is set
  signer,      \* this.signer is set
  contract,    \* this.contract: 0 = undefined, else the attached address
  startTime,   \* this.startTime: 0 = undefined, else a Date.now() value
  state,       \* this.state
  handlers,    \* eventEmitter's listeners: event name -> sequence of handlers
  calls,       \* the execute() calls: position and action of each
  startCalls,  \* start() calls suspended at `await subscribeToEvents`
  now,         \* the clock read by Date.now()
  emitted,     \* the emissions performed by the latest operation, in order
  ret,         \* what the latest operation reported to its caller
  hist,        \* history: what the collaborator and the clock really did,
               \* and whether an init() ran with a key and an address
  held,        \* references to state objects that callers and handlers hold
  inflight,    \* asynchronous handler invocations started and not settled
  sim,         \* the AgentSimulator built around the agent
  ai,          \* this.aiInterface and what the caller last got from agent.ai
  chain,       \* a MockBlockchain
  evm          \* the contracts: a BaseAgent, the AgentRegistry, the AgentFactory

vars ==
  <<config, provider, signer, contract, startTime, state, handlers, calls,
    startCalls, now, emitted, ret, hist, held, inflight, sim, ai, chain,
    evm>>

CallIds == 1 .. MaxCalls

NoResult == [success |-> FALSE, txHash |-> "", gasUsed |-> 0]

\* constructor: the initial AgentState
InitialState ==
  [status |-> "idle",
   lastAction |-> 0,
   metrics |->
     [totalActions |-> 0, successRate |-> Rat(1), avgGasUsed |-> Rat(0),
      uptime |-> 0, lastActionAt |-> 0],
   data |-> {},
   contractAddress |-> 0]

\* constructor: the configurations an agent is built with (name and type
\* present, validateConfig passed)
Configs ==
  [privateKey : BOOLEAN, contractAddress : {0, 1}, triggers : BOOLEAN,
   network : {"testnet", "nonet"}]

\* a reference to an AgentState object that left the agent: the value seen
\* through it, whether it is the object this.state itself (live), and whether
\* its metrics and data are the objects this.state.metrics / this.state.data
NoRef ==
  [taken |-> FALSE, value |-> InitialState, live |-> FALSE, metrics |-> FALSE,
   data |-> FALSE]

\* keep: "returned" when the caller keeps what getState() returned,
\* "payload" when the state_changed handlers keep their payload
NothingHeld(keep) ==
  [keep |-> keep, returned |-> NoRef, oldState |-> NoRef, newState |-> NoRef]

\* the SimulationResult a run() call has not produced yet.  shared: its
\* events and actions are the arrays that are this.events and this.actions
NoRunResult ==
  [totalEvents |-> 0, totalActions |-> 0, successfulActions |-> 0,
   failedActions |-> 0, successRate |-> <<0, 1>>, events |-> <<>>,
   actions |-> <<>>, shared |-> FALSE]

\* a run() call before it is made
IdleRun ==
  [pc |-> "idle", k |-> 0, alone |-> FALSE, stopped |-> FALSE,
   acts |-> <<>>, result |-> NoRunResult]

\* new AgentSimulator(agent, {scenario}): its own emitter, empty logs, not
\* running.  runs: the position of each run() call, the number of scenario
\* events it has taken, whether it has the logs to itself (no other
\* run() was in progress when it began and none has begun since), whether
\* stop() was called while it was in progress, the actions it produced and the result it returned, as its caller sees it.
\* delivered: the listener calls made by the dispatches since the latest
\* run() began
NewSimulator(scenario) ==
  [scenario |-> scenario,
   isRunning |-> FALSE,
   events |-> <<>>,
   actions |-> <<>>,
   listeners |-> [t \in ScenarioTypes |-> <<>>],
   runs |-> [r \in RunIds |-> IdleRun],
   delivered |-> <<>>]

\* aiInterface is undefined after construction; nothing was read from
\* agent.ai (got), nothing was analysed yet, the default capability was not
\* created
NoAI ==
  [aiInterface |-> "undefined", got |-> "none", decision |-> NoDecision,
   created |-> FALSE]

\* the genesis block
GenesisBlock == [number |-> 0, transactions |-> <<>>]

\* an operation that returned neither an address nor a call result
NoReturn == [address |-> 0, success |-> FALSE]

\* the events a MockBlockchain emits
ChainEvents == {"block", "transaction"}

\* new MockBlockchain(): the genesis block, no accounts, no contracts, not
\* running.  accounts: the addresses with a balance set; loops: the
\* mineBlocks() loops asleep in sleep(blockTime); events: what the latest
\* operation emitted; deployed: the addresses deployContract has stored since
\* construction; returned: what the latest operation returned; last: the
\* latest operation and how it ended
NewChain ==
  [blocks |-> <<GenesisBlock>>,
   currentBlockNumber |-> 0,
   accounts |-> {},
   contracts |-> {},
   isRunning |-> FALSE,
   loops |-> 0,
   listeners |-> [t \in ChainEvents |-> <<>>],
   events |-> <<>>,
   deployed |-> {},
   returned |-> NoReturn,
   last |-> [op |-> "new", outcome |-> "ok"]]

\* accounts that send transactions, and the address of the AgentFactory
Accounts == {"alice", "bob"}
FactoryAddress == "factory"

\* BaseAgent's constructor run by deployer: Ownable sets the owner, agentInfo
\* and executedActions have their zero values (status IDLE, createdAt 0).
\* actions: the executeAction calls that succeeded since initialize; last:
\* the latest call, its sender and whether it reverted
NewBaseAgent(deployer) ==
  [owner |-> deployer,
   info |-> [name |-> "", agentType |-> "DEFI", status |-> "IDLE",
             owner |-> "0", createdAt |-> 0, totalActions |-> 0],
   executedActions |-> {},
   actions |-> 0,
   last |-> [op |-> "constructor", sender |-> deployer, reverted |-> FALSE]]

\* contract addresses: 0 is address(0), ExternalAgents are agents deployed
\* by the accounts themselves, 10 + i is the i-th contract the factory deploys
ExternalAgents == {1, 2}
CreatedAddress(i) == 10 + i
AgentAddresses == {0} \cup ExternalAgents \cup {CreatedAddress(i) : i \in 1 .. MaxList}

\* the zero value of the registry's AgentInfo struct
NoAgentInfo ==
  [name |-> "", agentAddress |-> 0, owner |-> "0", createdAt |-> 0,
   active |-> FALSE]

\* AgentRegistry's constructor: the mappings and the list are empty
NewRegistry ==
  [agents |-> [a \in AgentAddresses |-> NoAgentInfo],
   agentList |-> <<>>,
   agentsByOwner |-> [o \in Accounts \cup {FactoryAddress} |-> <<>>],
   last |-> [op |-> "constructor", sender |-> "alice", reverted |-> FALSE]]

\* the contracts as deployed: a BaseAgent deployed by alice, the registry, the
\* factory pointing at it; created: the BaseAgents the factory has deployed,
\* the i-th at CreatedAddress(i); factory: the latest call of the factory and
\* the addresses it returned; timestamp: block.timestamp
NewEvm ==
  [agent |-> NewBaseAgent("alice"),
   registry |-> NewRegistry,
   created |-> <<>>,
   factory |-> [op |-> "constructor", sender |-> "alice", reverted |-> FALSE,
                returned |-> <<>>],
   timestamp |-> 1]

Init ==
  /\ config \in Configs
  /\ provider = FALSE
  /\ signer = FALSE
  /\ contract = 0
  /\ startTime = 0
  /\ state = InitialState
  /\ handlers = [e \in EventNames |-> <<>>]
  /\ calls =
       [c \in CallIds |->
          [pc |-> "ready", action |-> 0]]
  /\ startCalls = 0
  /\ now = 1
  /\ emitted = <<>>
  /\ ret = [op |-> "new", outcome |-> "ok", early |-> FALSE, value |-> NoResult]
  /\ hist =
       [attempts |-> 0, confirmed |-> 0, gasSum |-> 0, obs |-> 0,
        obsSucc |-> 0, obsGas |-> 0, overlap |-> FALSE, runTime |-> 0,
        loaded |-> FALSE]
  /\ held \in {NothingHeld(k) : k \in SUBSET {"returned", "payload"}}
  /\ inflight = <<>>
  /\ sim \in {NewSimulator(sc) : sc \in ScenarioNames}
  /\ ai = NoAI
  /\ chain = NewChain
  /\ evm = NewEvm

\* ------------------------------------------------------------- emission

\* eventemitter3 calls the listeners of the event in registration order with
\* no try/catch: a listener that throws ends the loop and the exception
\* leaves emit(); a listener that returns a rejected promise does not.
RECURSIVE Invoked(_)
Invoked(hs) ==
  IF hs = <<>> THEN <<>>
  ELSE IF Head(hs) = "hThrow" THEN <<Head(hs)>>
  ELSE <<Head(hs)>> \o Invoked(Tail(hs))

Threw(hs) == \E i \in 1 .. Len(hs) : hs[i] = "hThrow"

Payload(a, e, t, r) == [action |-> a, error |-> e, t |-> t, result |-> r]

\* emit(event, data): the AgentEvent built, the listeners it reached and
\* whether the call threw
emit(event, data) ==
  [type |-> event, timestamp |-> now, data |-> data,
   invoked |-> Invoked(handlers[event]), threw |-> Threw(handlers[event])]

\* --------------------------------------------------------------- metrics

updateMetrics(metrics, success, gasUsed) ==
  LET totalActions == metrics.totalActions + 1
      successfulActions ==
        IF success
          THEN RAdd(RMul(Rat(metrics.totalActions), metrics.successRate), Rat(1))
          ELSE RMul(Rat(metrics.totalActions), metrics.successRate)
  IN  [totalActions |-> totalActions,
       successRate |-> RDiv(successfulActions, Rat(totalActions)),
       avgGasUsed |->
         RDiv(RAdd(RMul(metrics.avgGasUsed, Rat(metrics.totalActions)),
                   Rat(gasUsed)),
              Rat(totalActions)),
       uptime |-> metrics.uptime,
       lastActionAt |-> now]

Observe(h, success, gasUsed) ==
  [h EXCEPT !.obs = @ + 1,
            !.obsSucc = @ + (IF success THEN 1 ELSE 0),
            !.obsGas = @ + gasUsed]

\* ------------------------------------------------------------ references

\* what is seen through reference r once the agent's state is st: a live
\* reference is this.state itself, a copy still shares the nested objects
Seen(r, st) ==
  IF ~r.taken THEN r
  ELSE IF r.live THEN [r EXCEPT !.value = st]
  ELSE [r EXCEPT !.value.metrics = IF r.metrics THEN st.metrics ELSE @,
                 !.value.data = IF r.data THEN st.data ELSE @]

\* the reference after `this.state.metrics = {...}`: a copy keeps the old
\* metrics object
MetricsReplaced(r) == [r EXCEPT !.metrics = r.live]

\* the reference after `this.state = { ...this.state, ...partialState }`: no
\* longer this.state, sharing the nested objects the partial did not replace
StateReplaced(r, keys) ==
  [r EXCEPT !.live = FALSE,
            !.metrics = (r.live \/ r.metrics) /\ "metrics" \notin keys,
            !.data = (r.live \/ r.data) /\ "data" \notin keys]

\* the held references after an operation left the agent's state st
Alias(h, st, kind) ==
  LET after(r) == IF kind = "metrics" THEN Seen(MetricsReplaced(r), st)
                  ELSE Seen(r, st)
  IN  [h EXCEPT !.returned = after(@), !.oldState = after(@),
                !.newState = after(@)]

\* an emitter that waits for an asynchronous handler before calling the next
AsyncFirst(hs) ==
  LET async == {i \in 1 .. Len(hs) : hs[i] \in AsyncHandlers}
  IN  IF async = {} THEN <<>>
      ELSE <<hs[CHOOSE i \in async : \A j \in async : i <= j]>>

\* the asynchronous handlers among the listeners called, in call order
RECURSIVE AsyncOf(_)
AsyncOf(hs) ==
  IF hs = <<>> THEN <<>>
  ELSE IF Head(hs) \in AsyncHandlers THEN <<Head(hs)>> \o AsyncOf(Tail(hs))
  ELSE AsyncOf(Tail(hs))

RECURSIVE Started(_)
Started(es) ==
  IF es = <<>> THEN <<>> ELSE AsyncOf(Head(es).invoked) \o Started(Tail(es))

\* what an agent operation leaves behind outside the agent's own fields:
\* the held references follow the writes, the asynchronous handlers it
\* called are in flight, the simulator is not involved
Follows(kind) ==
  /\ held' = Alias(held, state', kind)
  /\ inflight' = inflight \o Started(emitted')
  /\ Len(inflight') <= MaxInflight
  /\ UNCHANGED <<sim, ai, chain, evm>>

\* ------------------------------------------------------------- lifecycle

Report(op, outcome, early) ==
  [op |-> op, outcome |-> outcome, early |-> early, value |-> NoResult]

\* what a caller sees of an operation whose last statement is an emit
AfterEmit(e) == IF e.threw THEN "HandlerError" ELSE "ok"

\* start(): returns at once when running; otherwise sets status and
\* startTime, awaits subscribeToEvents when triggers are configured, and
\* emits agent:started
start ==
  IF state.status = "running"
    THEN /\ ret' = Report("start", "ok", TRUE)
         /\ emitted' = <<>>
         /\ UNCHANGED <<state, startTime, startCalls>>
    ELSE /\ state' = [state EXCEPT !.status = "running"]
         /\ startTime' = now
         /\ IF config.triggers
              THEN /\ startCalls < MaxStartCalls
                   /\ startCalls' = startCalls + 1
                   /\ emitted' = <<>>
                   /\ ret' = Report("start", "pending", FALSE)
              ELSE LET e == emit(STARTED, Payload(0, "", now, NoResult))
                   IN  /\ emitted' = <<e>>
                       /\ ret' = Report("start", AfterEmit(e), FALSE)
                       /\ UNCHANGED startCalls

Start ==
  /\ start
  /\ UNCHANGED <<config, provider, signer, contract, handlers, calls, now, hist>>
  /\ Follows("inplace")

\* start() resumed after `await this.subscribeToEvents(...)`: emits
\* agent:started with the startTime of that moment
StartResume ==
  /\ startCalls > 0
  /\ startCalls' = startCalls - 1
  /\ LET e == emit(STARTED, Payload(0, "", startTime, NoResult))
     IN  /\ emitted' = <<e>>
         /\ ret' = Report("start", AfterEmit(e), FALSE)
  /\ UNCHANGED <<config, provider, signer, contract, startTime, state,
                 handlers, calls, now, hist>>
  /\ Follows("inplace")

\* the uptime stop() stores
StoppedUptime ==
  IF startTime # 0
    THEN state.metrics.uptime + (now - startTime)
    ELSE state.metrics.uptime

\* stop() without its early return
stopUnguarded ==
  /\ StoppedUptime <= MaxUptime
  /\ state' = [state EXCEPT !.status = "idle",
                            !.metrics.uptime = StoppedUptime]
  /\ LET e == emit(STOPPED, Payload(0, "", StoppedUptime, NoResult))
     IN  /\ emitted' = <<e>>
         /\ ret' = Report("stop", AfterEmit(e), FALSE)

stop ==
  IF state.status # "running"
    THEN /\ ret' = Report("stop", "ok", TRUE)
         /\ emitted' = <<>>
         /\ UNCHANGED state
    ELSE /\ StoppedUptime <= MaxUptime
         /\ state' = [state EXCEPT !.status = "idle",
                                   !.metrics.uptime = StoppedUptime]
         /\ LET e == emit(STOPPED, Payload(0, "", StoppedUptime, NoResult))
            IN  /\ emitted' = <<e>>
                /\ ret' = Report("stop", AfterEmit(e), FALSE)

Stop ==
  /\ stop
  /\ UNCHANGED <<config, provider, signer, contract, startTime, handlers, calls,
                 startCalls, now, hist>>
  /\ Follows("inplace")

\* pause() that changes the status without announcing it
pauseSilent ==
  IF state.status # "running"
    THEN /\ ret' = Report("pause", "ok", TRUE)
         /\ emitted' = <<>>
         /\ UNCHANGED state
    ELSE /\ state' = [state EXCEPT !.status = "paused"]
         /\ emitted' = <<>>
         /\ ret' = Report("pause", "ok", FALSE)

pause ==
  IF state.status # "running"
    THEN /\ ret' = Report("pause", "ok", TRUE)
         /\ emitted' = <<>>
         /\ UNCHANGED state
    ELSE /\ state' = [state EXCEPT !.status = "paused"]
         /\ LET e == emit(PAUSED, Payload(0, "", 0, NoResult))
            IN  /\ emitted' = <<e>>
                /\ ret' = Report("pause", AfterEmit(e), FALSE)

Pause ==
  /\ pause
  /\ UNCHANGED <<config, provider, signer, contract, startTime, handlers, calls,
                 startCalls, now, hist>>
  /\ Follows("inplace")

resume ==
  IF state.status # "paused"
    THEN /\ ret' = Report("resume", "ok", TRUE)
         /\ emitted' = <<>>
         /\ UNCHANGED state
    ELSE /\ state' = [state EXCEPT !.status = "running"]
         /\ LET e == emit(RESUMED, Payload(0, "", 0, NoResult))
            IN  /\ emitted' = <<e>>
                /\ ret' = Report("resume", AfterEmit(e), FALSE)

Resume ==
  /\ resume
  /\ UNCHANGED <<config, provider, signer, contract, startTime, handlers, calls,
                 startCalls, now, hist>>
  /\ Follows("inplace")

\* time passes: Date.now() advances by one unit
Tick ==
  /\ now < MaxTime
  /\ now' = now + 1
  /\ hist' = [hist EXCEPT !.runTime =
                @ + (IF state.status = "running" THEN 1 ELSE 0)]
  /\ UNCHANGED <<config, provider, signer, contract, startTime, state, handlers,
                 calls, startCalls, emitted, ret, held, inflight, sim>>
  /\ UNCHANGED <<ai, chain, evm>>

\* --------------------------------------------------------------- execute

\* execute(), the catch block: records a failure, emits agent:error and
\* throws ExecutionError; an exception thrown by an agent:error listener
\* leaves the catch block in its place
CatchBlock(st, h, a, message) ==
  LET e == emit(ERROR, Payload(a, message, 0, NoResult))
  IN  [state |-> [st EXCEPT !.metrics = updateMetrics(st.metrics, FALSE, 0)],
       hist |-> Observe(h, FALSE, 0),
       emitted |-> <<e>>,
       result |-> IF e.threw THEN "HandlerError" ELSE "ExecutionError",
       value |-> NoResult]

\* execute(), the try block after tx.wait() resolved with receipt r: records
\* the success, stores lastAction and emits agent:action_executed; the emit is
\* inside the try, so an exception thrown by a listener enters the catch block
TryBlock(st, h, a, r) ==
  LET result == [success |-> TRUE, txHash |-> r.hash, gasUsed |-> r.gasUsed]
      st1 == [st EXCEPT !.metrics = updateMetrics(st.metrics, TRUE, r.gasUsed),
                        !.lastAction = a]
      h1 == Observe(h, TRUE, r.gasUsed)
      e == emit(ACTION_EXECUTED, Payload(a, "", 0, result))
      c == CatchBlock(st1, h1, a, "handler threw")
  IN  IF e.threw
        THEN [c EXCEPT !.emitted = <<e>> \o @]
        ELSE [state |-> st1, hist |-> h1, emitted |-> <<e>>, result |-> "ok",
              value |-> result]

\* the call's outcome is stored and the attempt is counted
Settle(c, out, confirmed, gasUsed) ==
  /\ state' = out.state
  /\ emitted' = out.emitted
  /\ calls' = [calls EXCEPT ![c] = [pc |-> "done", action |-> 0]]
  /\ hist' = [out.hist EXCEPT !.attempts = @ + 1,
                              !.confirmed = @ + (IF confirmed THEN 1 ELSE 0),
                              !.gasSum = @ + gasUsed]
  /\ ret' = [Report("execute", out.result, FALSE) EXCEPT !.value = out.value]

InFlight(cs) == {c \in CallIds : cs[c].pc \in {"submit", "wait"}}

\* execute() with the failure recorded before the precondition is checked
ExecuteCountsRejected(c, a) ==
  /\ calls[c].pc \in {"ready", "done"}
  /\ state.metrics.totalActions < MaxObs
  /\ IF contract = 0 \/ ~signer
       THEN /\ calls' = [calls EXCEPT ![c] =
                           [pc |-> "done", action |-> 0]]
            /\ ret' = Report("execute", "ExecutionError", TRUE)
            /\ state' = [state EXCEPT
                           !.metrics = updateMetrics(@, FALSE, 0)]
            /\ hist' = Observe(hist, FALSE, 0)
       ELSE /\ calls' = [calls EXCEPT ![c] =
                           [pc |-> "submit", action |-> a]]
            /\ ret' = Report("execute", "pending", FALSE)
            /\ hist' = [hist EXCEPT !.overlap = @ \/ InFlight(calls) # {}]
            /\ UNCHANGED state
  /\ emitted' = <<>>
  /\ UNCHANGED <<config, provider, signer, contract, startTime, handlers,
                 startCalls, now>>
  /\ Follows("metrics")

\* execute(action), up to its first await: the precondition, then the
\* submission contract.executeAction(...)
Execute(c, a) ==
  /\ calls[c].pc \in {"ready", "done"}
  /\ IF contract = 0 \/ ~signer
       THEN /\ calls' = [calls EXCEPT ![c] =
                           [pc |-> "done", action |-> 0]]
            /\ ret' = Report("execute", "ExecutionError", TRUE)
            /\ UNCHANGED hist
       ELSE /\ calls' = [calls EXCEPT ![c] =
                           [pc |-> "submit", action |-> a]]
            /\ ret' = Report("execute", "pending", FALSE)
            /\ hist' = [hist EXCEPT !.overlap = @ \/ InFlight(calls) # {}]
  /\ emitted' = <<>>
  /\ UNCHANGED <<config, provider, signer, contract, startTime, state, handlers,
                 startCalls, now>>
  /\ Follows("inplace")

\* contract.executeAction(...) resolved with a transaction handle
SubmitResolve(c) ==
  /\ calls[c].pc = "submit"
  /\ calls' = [calls EXCEPT ![c].pc = "wait"]
  /\ UNCHANGED <<config, provider, signer, contract, startTime, state, handlers,
                 startCalls, now, emitted, ret, hist, held, inflight, sim>>
  /\ UNCHANGED <<ai, chain, evm>>

\* contract.executeAction(...) rejected
SubmitReject(c) ==
  /\ calls[c].pc = "submit"
  /\ state.metrics.totalActions < MaxObs
  /\ Settle(c, CatchBlock(state, hist, calls[c].action, "submit failed"),
            FALSE, 0)
  /\ UNCHANGED <<config, provider, signer, contract, startTime, handlers,
                 startCalls, now>>
  /\ Follows("metrics")

\* tx.wait() resolved with receipt r
WaitResolve(c, r) ==
  /\ calls[c].pc = "wait"
  /\ state.metrics.totalActions < MaxObs
  /\ Settle(c, TryBlock(state, hist, calls[c].action, r), TRUE, r.gasUsed)
  /\ UNCHANGED <<config, provider, signer, contract, startTime, handlers,
                 startCalls, now>>
  /\ Follows("metrics")

\* tx.wait() rejected
WaitReject(c) ==
  /\ calls[c].pc = "wait"
  /\ state.metrics.totalActions < MaxObs
  /\ Settle(c, CatchBlock(state, hist, calls[c].action, "wait failed"),
            FALSE, 0)
  /\ UNCHANGED <<config, provider, signer, contract, startTime, handlers,
                 startCalls, now>>
  /\ Follows("metrics")

\* ------------------------------------------------------ handlers and state

RECURSIVE Total(_, _)
Total(f, S) ==
  IF S = {} THEN 0
  ELSE LET x == CHOOSE y \in S : TRUE IN Len(f[x]) + Total(f, S \ {x})

Registrations == Total(handlers, EventNames)

\* onEvent(event, handler): appended to the event's listeners
OnEvent(event, handler) ==
  /\ Registrations < MaxHandlers
  /\ handlers' = [handlers EXCEPT ![event] = Append(@, handler)]
  /\ emitted' = <<>>
  /\ ret' = Report("onEvent", "ok", FALSE)
  /\ UNCHANGED <<config, provider, signer, contract, startTime, state, calls,
                 startCalls, now, hist>>
  /\ Follows("inplace")

\* eventemitter3's removeListener keeps the listeners whose function differs
RECURSIVE Without(_, _)
Without(hs, handler) ==
  IF hs = <<>> THEN <<>>
  ELSE IF Head(hs) = handler THEN Without(Tail(hs), handler)
  ELSE <<Head(hs)>> \o Without(Tail(hs), handler)

\* offEvent(event, handler)
OffEvent(event, handler) ==
  /\ handlers' = [handlers EXCEPT ![event] = Without(@, handler)]
  /\ emitted' = <<>>
  /\ ret' = Report("offEvent", "ok", FALSE)
  /\ UNCHANGED <<config, provider, signer, contract, startTime, state, calls,
                 startCalls, now, hist>>
  /\ Follows("inplace")

\* the partial states the modelled callers pass to setState: a set of
\* top-level keys and a value for each
StateKeys == {"status", "lastAction", "metrics", "data", "contractAddress"}

Partials ==
  [keys : SUBSET StateKeys, status : Statuses, lastAction : {0, 1},
   metrics : {InitialState.metrics}, data : DataValues,
   contractAddress : {0, 2}]

\* a setState that merges the data bag instead of replacing it
MergeNested(st, partial) ==
  [k \in StateKeys |->
     IF k \notin partial.keys THEN st[k]
     ELSE IF k = "data" THEN st.data \cup partial.data
     ELSE partial[k]]

\* { ...this.state, ...partialState }
Merge(st, partial) ==
  [k \in StateKeys |-> IF k \in partial.keys THEN partial[k] ELSE st[k]]

\* setState(partialState): this.state becomes a new object; the payload's
\* oldState is the copy taken before, its newState is this.state itself
SetState(partial) ==
  /\ state' = Merge(state, partial)
  /\ LET e == emit(STATE_CHANGED, Payload(0, "", 0, NoResult))
     IN  /\ emitted' = <<e>>
         /\ ret' = Report("setState", AfterEmit(e), FALSE)
  /\ held' =
       [held EXCEPT
          !.returned = StateReplaced(@, partial.keys),
          !.oldState =
            IF "payload" \in held.keep
              THEN [taken |-> TRUE, value |-> state, live |-> FALSE,
                    metrics |-> "metrics" \notin partial.keys,
                    data |-> "data" \notin partial.keys]
              ELSE @,
          !.newState =
            IF "payload" \in held.keep
              THEN [taken |-> TRUE, value |-> state', live |-> TRUE,
                    metrics |-> TRUE, data |-> TRUE]
              ELSE @]
  /\ inflight' = inflight \o Started(emitted')
  /\ Len(inflight') <= MaxInflight
  /\ UNCHANGED <<config, provider, signer, contract, startTime, handlers, calls,
                 startCalls, now, hist, sim>>
  /\ UNCHANGED <<ai, chain, evm>>

\* getState(): returns { ...this.state }, a new top-level object whose nested
\* values are the agent's own objects
GetState ==
  /\ emitted' = <<>>
  /\ ret' = Report("getState", "ok", FALSE)
  /\ held' =
       [held EXCEPT
          !.returned =
            IF "returned" \in held.keep
              THEN [taken |-> TRUE, value |-> state, live |-> FALSE,
                    metrics |-> TRUE, data |-> TRUE]
              ELSE @]
  /\ UNCHANGED <<config, provider, signer, contract, startTime, state, handlers,
                 calls, startCalls, now, hist, inflight, sim>>
  /\ UNCHANGED <<ai, chain, evm>>

\* the caller writes through the value getState() returned: its status, a
\* field of its metrics, or a key of its data
MutatedValue(v, field) ==
  IF field = "status" THEN [v EXCEPT !.status = "error"]
  ELSE IF field = "metrics" THEN [v EXCEPT !.metrics.totalActions = 1]
  ELSE [v EXCEPT !.data = @ \cup {<<"x", 1>>}]

Mutate(field) ==
  /\ held.returned.taken
  /\ LET v == MutatedValue(held.returned.value, field)
         st == [state EXCEPT
                  !.metrics = IF field = "metrics" /\ held.returned.metrics
                                THEN v.metrics ELSE @,
                  !.data = IF field = "data" /\ held.returned.data
                             THEN v.data ELSE @]
     IN  /\ state' = st
         /\ held' = Alias([held EXCEPT !.returned.value = v], st, "inplace")
  /\ emitted' = <<>>
  /\ ret' = Report("mutate", "ok", FALSE)
  /\ UNCHANGED <<config, provider, signer, contract, startTime, handlers, calls,
                 startCalls, now, hist, inflight, sim>>
  /\ UNCHANGED <<ai, chain, evm>>

\* an asynchronous handler invocation settles (resolves or rejects): nothing
\* in the agent waits for it
HandlerSettles(i) ==
  /\ i \in 1 .. Len(inflight)
  /\ inflight' = SubSeq(inflight, 1, i - 1) \o
                    SubSeq(inflight, i + 1, Len(inflight))
  /\ UNCHANGED <<config, provider, signer, contract, startTime, state, handlers,
                 calls, startCalls, now, emitted, ret, hist, held, sim>>
  /\ UNCHANGED <<ai, chain, evm>>

\* --------------------------------------------------------- init and deploy

\* init(): resolves the network, sets provider, signer (with a private key)
\* and contract (with a contract address), emits agent:initialized; whatever
\* is thrown inside becomes a ConfigurationError
AgentInit ==
  IF config.network \notin Networks
    THEN /\ ret' = Report("init", "ConfigurationError", TRUE)
         /\ emitted' = <<>>
         /\ UNCHANGED <<provider, signer, contract, hist>>
    ELSE /\ provider' = TRUE
         /\ hist' = [hist EXCEPT !.loaded = @ \/ (config.privateKey /\
                                                  config.contractAddress # 0)]
         /\ signer' = (config.privateKey \/ signer)
         /\ contract' = IF config.contractAddress # 0
                          THEN config.contractAddress
                          ELSE contract
         /\ LET e == emit(INITIALIZED, Payload(0, "", 0, NoResult))
            IN  /\ emitted' = <<e>>
                /\ ret' = Report("init",
                                 IF e.threw THEN "ConfigurationError" ELSE "ok",
                                 FALSE)

AInit ==
  /\ AgentInit
  /\ UNCHANGED <<config, startTime, state, handlers, calls, startCalls, now>>
  /\ Follows("inplace")

\* addresses Wallet.createRandom() hands to deploy()
MockAddresses == {2}

\* a deploy() that also attaches the contract at the new address
DeployAttaches(mockAddress) ==
  /\ IF ~signer
       THEN /\ ret' = Report("deploy", "DeploymentError", TRUE)
            /\ emitted' = <<>>
            /\ UNCHANGED <<config, state, contract>>
       ELSE /\ config' = [config EXCEPT !.contractAddress = mockAddress]
            /\ state' = [state EXCEPT !.contractAddress = mockAddress]
            /\ contract' = mockAddress
            /\ LET e == emit(DEPLOYED, Payload(0, "", 0, NoResult))
               IN  /\ emitted' = <<e>>
                   /\ ret' = Report("deploy",
                                    IF e.threw THEN "DeploymentError" ELSE "ok",
                                    FALSE)
  /\ UNCHANGED <<provider, signer, startTime, handlers, calls,
                 startCalls, now, hist>>
  /\ Follows("inplace")

\* deploy(options): needs a signer; stores the mock address on config and
\* state and emits agent:deployed; whatever is thrown inside the try becomes a
\* DeploymentError
Deploy(mockAddress) ==
  /\ IF ~signer
       THEN /\ ret' = Report("deploy", "DeploymentError", TRUE)
            /\ emitted' = <<>>
            /\ UNCHANGED <<config, state>>
       ELSE /\ config' = [config EXCEPT !.contractAddress = mockAddress]
            /\ state' = [state EXCEPT !.contractAddress = mockAddress]
            /\ LET e == emit(DEPLOYED, Payload(0, "", 0, NoResult))
               IN  /\ emitted' = <<e>>
                   /\ ret' = Report("deploy",
                                    IF e.threw THEN "DeploymentError" ELSE "ok",
                                    FALSE)
  /\ UNCHANGED <<provider, signer, contract, startTime, handlers, calls,
                 startCalls, now, hist>>
  /\ Follows("inplace")

\* ------------------------------------------------------------ capability

\* a getter that hands out the field as it is
aiUnset(aiInterface) == aiInterface

\* get ai(): creates the default capability when the field is not set and
\* returns the field
aiOf(aiInterface) ==
  IF aiInterface = "undefined" THEN "default" ELSE aiInterface

\* analyze of a capability: the default one resolves to 'hold' with
\* confidence 0.5 whatever the data, a supplied one to a decision of its own
analyze(capability, data) ==
  IF capability = "default"
    THEN [action |-> "hold", confidence |-> <<1, 2>>]
    ELSE [action |-> IF capability = "aiBuy" THEN "buy" ELSE "sell",
          confidence |-> Norm(data, 10)]

\* reading agent.ai
GetAI ==
  /\ ai' = [ai EXCEPT !.aiInterface = aiOf(@),
                      !.got = aiOf(ai.aiInterface),
                      !.created = @ \/ ai.aiInterface = "undefined"]
  /\ UNCHANGED <<config, provider, signer, contract, startTime, state, handlers,
                 calls, startCalls, now, emitted, ret, hist, held, inflight,
                 sim, chain, evm>>

\* setAI(x)
SetAI(x) ==
  /\ ai' = [ai EXCEPT !.aiInterface = x]
  /\ UNCHANGED <<config, provider, signer, contract, startTime, state, handlers,
                 calls, startCalls, now, emitted, ret, hist, held, inflight,
                 sim, chain, evm>>

\* await agent.ai.analyze(data)
Analyze(data) ==
  /\ ai' = [ai EXCEPT !.aiInterface = aiOf(@),
                      !.got = aiOf(ai.aiInterface),
                      !.created = @ \/ ai.aiInterface = "undefined",
                      !.decision = analyze(aiOf(ai.aiInterface), data)]
  /\ UNCHANGED <<config, provider, signer, contract, startTime, state, handlers,
                 calls, startCalls, now, emitted, ret, hist, held, inflight,
                 sim, chain, evm>>

\* ------------------------------------------------------------ blockchain

\* addresses callers use, and those generateAddress() draws
ChainAddresses == {1, 2}
GeneratedAddresses == {1}

\* a transaction as sendTransaction builds it: the status drawn and the
\* recipient (0: the zero address)
Tx(status, to) == [status |-> status, to |-> to]

TxStatuses == {"success", "failed"}

\* transactions in all the blocks
TotalTransactions(c) ==
  Total([i \in DOMAIN c.blocks |-> c.blocks[i].transactions], DOMAIN c.blocks)

\* this.eventEmitter.emit(type, ...): the event and whether a listener threw
chainEmit(c, type) == [type |-> type, threw |-> Threw(c.listeners[type])]

\* chain.on(event, handler)
ChainOn(type, handler) ==
  /\ Total(chain.listeners, ChainEvents) < MaxListeners
  /\ chain' = [chain EXCEPT !.listeners[type] = Append(@, handler),
                            !.events = <<>>,
                            !.returned = NoReturn,
                            !.last = [op |-> "on", outcome |-> "ok"]]
  /\ UNCHANGED <<config, provider, signer, contract, startTime, state, handlers,
                 calls, startCalls, now, emitted, ret, hist, held, inflight,
                 sim, ai, evm>>

\* start(): nothing when running; otherwise sets isRunning and enters
\* mineBlocks, which goes to sleep
ChainStart ==
  /\ chain.loops <= MaxLoops
  /\ chain' = IF chain.isRunning
                THEN [chain EXCEPT !.events = <<>>,
                                   !.returned = NoReturn,
                                   !.last = [op |-> "start", outcome |-> "ok"]]
                ELSE [chain EXCEPT !.isRunning = TRUE,
                                   !.loops = @ + 1,
                                   !.events = <<>>,
                                   !.returned = NoReturn,
                                   !.last = [op |-> "start", outcome |-> "ok"]]
  /\ UNCHANGED <<config, provider, signer, contract, startTime, state, handlers,
                 calls, startCalls, now, emitted, ret, hist, held, inflight,
                 sim, ai, evm>>

\* stop()
ChainStop ==
  /\ chain' = [chain EXCEPT !.isRunning = FALSE,
                            !.events = <<>>,
                            !.returned = NoReturn,
                            !.last = [op |-> "stop", outcome |-> "ok"]]
  /\ UNCHANGED <<config, provider, signer, contract, startTime, state, handlers,
                 calls, startCalls, now, emitted, ret, hist, held, inflight,
                 sim, ai, evm>>

\* mineBlock(): the next number, a block of that number appended, 'block'
\* emitted
mineBlock(c) ==
  [c EXCEPT !.currentBlockNumber = @ + 1,
            !.blocks = Append(@, [number |-> c.currentBlockNumber + 1,
                                  transactions |-> <<>>]),
            !.events = <<chainEmit(c, "block")>>]

\* a mineBlocks() loop when its sleep is over: it mines a block and then
\* tests isRunning, to sleep again or to end; a 'block' listener that throws
\* ends it
ChainWake ==
  /\ chain.loops > 0
  /\ Len(chain.blocks) < MaxBlocks
  /\ LET c == mineBlock(chain)
     IN  chain' = [c EXCEPT
                     !.loops = IF c.events[1].threw \/ ~c.isRunning
                                 THEN @ - 1 ELSE @,
                     !.returned = NoReturn,
                     !.last = [op |-> "mineBlock",
                               outcome |-> IF c.events[1].threw
                                             THEN "HandlerError" ELSE "ok"]]
  /\ UNCHANGED <<config, provider, signer, contract, startTime, state, handlers,
                 calls, startCalls, now, emitted, ret, hist, held, inflight,
                 sim, ai, evm>>

\* a sendTransaction that adds to the first block
sendTransactionFirst(c, tx) ==
  [c EXCEPT !.blocks[1].transactions = Append(@, tx),
            !.events = <<chainEmit(c, "transaction")>>]

\* sendTransaction(tx): the transaction is pushed on the last block of the
\* list and 'transaction' is emitted
sendTransaction(c, tx) ==
  [c EXCEPT !.blocks[Len(c.blocks)].transactions = Append(@, tx),
            !.events = <<chainEmit(c, "transaction")>>]

\* how an operation that ends with sendTransaction stands with its caller
Sent(c, op) ==
  [op |-> op,
   outcome |-> IF c.events[1].threw THEN "HandlerError" ELSE "ok"]

\* await chain.sendTransaction({to})
SendTransaction(status, to) ==
  /\ TotalTransactions(chain) < MaxTxs
  /\ LET c == sendTransaction(chain, Tx(status, to))
     IN  chain' = [c EXCEPT !.returned = NoReturn,
                            !.last = Sent(c, "sendTransaction")]
  /\ UNCHANGED <<config, provider, signer, contract, startTime, state, handlers,
                 calls, startCalls, now, emitted, ret, hist, held, inflight,
                 sim, ai, evm>>

\* deployContract(bytecode, from): the contract is stored under a new
\* address, then the deployment transaction is sent to the zero address
DeployContract(address, status) ==
  /\ TotalTransactions(chain) < MaxTxs
  /\ LET c == sendTransaction([chain EXCEPT !.contracts = @ \cup {address}],
                              Tx(status, 0))
     IN  chain' = [c EXCEPT
                     !.deployed = @ \cup {address},
                     !.returned = IF c.events[1].threw THEN NoReturn
                                  ELSE [NoReturn EXCEPT !.address = address],
                     !.last = Sent(c, "deployContract")]
  /\ UNCHANGED <<config, provider, signer, contract, startTime, state, handlers,
                 calls, startCalls, now, emitted, ret, hist, held, inflight,
                 sim, ai, evm>>

\* a lookup among all the contracts ever stored
storedEver(c, address) == address \in c.deployed

\* this.contracts.get(contractAddress) finds a contract
stored(c, address) == address \in c.contracts

\* callContract(address, ...): 'Contract not found' for an unknown address,
\* otherwise a transaction to the contract
CallContract(address, status) ==
  /\ TotalTransactions(chain) < MaxTxs
  /\ IF ~stored(chain, address)
       THEN chain' = [chain EXCEPT
                        !.events = <<>>,
                        !.returned = NoReturn,
                        !.last = [op |-> "callContract",
                                  outcome |-> "Contract not found"]]
       ELSE LET c == sendTransaction(chain, Tx(status, address))
            IN  chain' = [c EXCEPT
                            !.returned =
                              IF c.events[1].threw THEN NoReturn
                              ELSE [NoReturn EXCEPT
                                      !.success = (status = "success")],
                            !.last = Sent(c, "callContract")]
  /\ UNCHANGED <<config, provider, signer, contract, startTime, state, handlers,
                 calls, startCalls, now, emitted, ret, hist, held, inflight,
                 sim, ai, evm>>

\* setBalance(address, balance)
SetBalance(address) ==
  /\ chain' = [chain EXCEPT !.accounts = @ \cup {address},
                            !.events = <<>>,
                            !.returned = NoReturn,
                            !.last = [op |-> "setBalance", outcome |-> "ok"]]
  /\ UNCHANGED <<config, provider, signer, contract, startTime, state, handlers,
                 calls, startCalls, now, emitted, ret, hist, held, inflight,
                 sim, ai, evm>>

\* getStats()
getStats(c) ==
  [blockNumber |-> c.currentBlockNumber,
   totalBlocks |-> Len(c.blocks),
   totalTransactions |-> TotalTransactions(c),
   totalAccounts |-> Cardinality(c.accounts),
   totalContracts |-> Cardinality(c.contracts)]

\* a reset that leaves the accounts
resetKeepsAccounts(c) ==
  [c EXCEPT !.blocks = <<GenesisBlock>>,
            !.currentBlockNumber = 0,
            !.contracts = {}]

\* a reset that leaves the block counter
resetBlocksOnly(c) ==
  [c EXCEPT !.blocks = <<GenesisBlock>>,
            !.accounts = {},
            !.contracts = {}]

\* reset(): a new block list with a new genesis block, the counter at 0, no
\* accounts, no contracts; isRunning and the loops are left as they are
reset(c) ==
  [c EXCEPT !.blocks = <<GenesisBlock>>,
            !.currentBlockNumber = 0,
            !.accounts = {},
            !.contracts = {}]

ChainReset ==
  /\ chain' = [reset(chain) EXCEPT
                 !.events = <<>>,
                 !.returned = NoReturn,
                 !.last = [op |-> "reset", outcome |-> "ok"]]
  /\ UNCHANGED <<config, provider, signer, contract, startTime, state, handlers,
                 calls, startCalls, now, emitted, ret, hist, held, inflight,
                 sim, ai, evm>>

\* ------------------------------------------------------------- BaseAgent

AgentStatuses == {"IDLE", "RUNNING", "PAUSED", "ERROR"}
AgentTypes == {"DEFI", "CUSTOM"}
AgentNames == {"", "TestAgent"}
ActionTypes == {"", "buy"}

\* a call by sender: its effect when its requirements hold, a revert that
\* leaves the contract as it was otherwise
Called(a, op, sender, holds, effect) ==
  IF holds
    THEN [effect EXCEPT
            !.last = [op |-> op, sender |-> sender, reverted |-> FALSE]]
    ELSE [a EXCEPT !.last = [op |-> op, sender |-> sender, reverted |-> TRUE]]

\* Ownable.transferOwnership(newOwner)
transferOwnership(a, sender, newOwner) ==
  Called(a, "transferOwnership", sender,
         a.owner = sender /\ newOwner # "0",
         [a EXCEPT !.owner = newOwner])

\* initialize(_name, _type)
initialize(a, sender, name, type, timestamp) ==
  Called(a, "initialize", sender,
         a.owner = sender /\ a.info.createdAt = 0 /\ name # "",
         [a EXCEPT !.info = [name |-> name, agentType |-> type,
                             status |-> "IDLE", owner |-> sender,
                             createdAt |-> timestamp, totalActions |-> 0],
                   !.actions = 0])

\* keccak256(abi.encodePacked(actionType, data, block.timestamp,
\* agentInfo.totalActions))
actionHash(actionType, timestamp, totalActions) ==
  <<actionType, timestamp, totalActions>>

\* executeAction(actionType, data)
executeAction(a, sender, actionType, timestamp) ==
  LET h == actionHash(actionType, timestamp, a.info.totalActions)
  IN  Called(a, "executeAction", sender,
             /\ a.owner = sender
             /\ a.info.status = "RUNNING"
             /\ actionType # ""
             /\ h \notin a.executedActions,
             [a EXCEPT !.executedActions = @ \cup {h},
                       !.info.totalActions = @ + 1,
                       !.actions = @ + 1])

\* updateStatus(newStatus)
updateStatus(a, sender, newStatus) ==
  Called(a, "updateStatus", sender,
         a.owner = sender /\ a.info.status # newStatus,
         [a EXCEPT !.info.status = newStatus])

\* start(), stop(), pause(), resume(), emergencyStop(): the statuses each
\* requires and the status it sets
LifecycleFrom ==
  [start |-> {"IDLE", "PAUSED"}, stop |-> {"RUNNING"}, pause |-> {"RUNNING"},
   resume |-> {"PAUSED"}, emergencyStop |-> AgentStatuses]

LifecycleTo ==
  [start |-> "RUNNING", stop |-> "IDLE", pause |-> "PAUSED",
   resume |-> "RUNNING", emergencyStop |-> "ERROR"]

lifecycle(a, sender, op) ==
  Called(a, op, sender,
         a.owner = sender /\ a.info.status \in LifecycleFrom[op],
         [a EXCEPT !.info.status = LifecycleTo[op]])

\* a transaction sent to the BaseAgent
AgentTx(a) ==
  /\ evm' = [evm EXCEPT !.agent = a]
  /\ UNCHANGED <<config, provider, signer, contract, startTime, state, handlers,
                 calls, startCalls, now, emitted, ret, hist, held, inflight,
                 sim, ai, chain>>

BInitialize(sender, name, type) ==
  AgentTx(initialize(evm.agent, sender, name, type, evm.timestamp))

BExecuteAction(sender, actionType) ==
  /\ evm.agent.info.totalActions < MaxActions
  /\ AgentTx(executeAction(evm.agent, sender, actionType, evm.timestamp))

BUpdateStatus(sender, newStatus) ==
  AgentTx(updateStatus(evm.agent, sender, newStatus))

BLifecycle(sender, op) == AgentTx(lifecycle(evm.agent, sender, op))

BTransferOwnership(sender, newOwner) ==
  AgentTx(transferOwnership(evm.agent, sender, newOwner))

\* a later block
NextBlock ==
  /\ evm.timestamp < MaxStamp
  /\ evm' = [evm EXCEPT !.timestamp = @ + 1]
  /\ UNCHANGED <<config, provider, signer, contract, startTime, state, handlers,
                 calls, startCalls, now, emitted, ret, hist, held, inflight,
                 sim, ai, chain>>

\* --------------------------------------------------------- AgentRegistry

\* registerAgent(agentAddress, name)
registerAgent(r, sender, agentAddress, name, timestamp) ==
  Called(r, "registerAgent", sender,
         /\ agentAddress # 0
         /\ name # ""
         /\ ~r.agents[agentAddress].active,
         [r EXCEPT !.agents[agentAddress] =
                     [name |-> name, agentAddress |-> agentAddress,
                      owner |-> sender, createdAt |-> timestamp,
                      active |-> TRUE],
                   !.agentList = Append(@, agentAddress),
                   !.agentsByOwner[sender] = Append(@, agentAddress)])

\* unregisterAgent(agentAddress)
unregisterAgent(r, sender, agentAddress) ==
  Called(r, "unregisterAgent", sender,
         /\ r.agents[agentAddress].active
         /\ r.agents[agentAddress].owner = sender,
         [r EXCEPT !.agents[agentAddress].active = FALSE])

\* updateAgentName(agentAddress, newName)
updateAgentName(r, sender, agentAddress, newName) ==
  Called(r, "updateAgentName", sender,
         /\ r.agents[agentAddress].active
         /\ r.agents[agentAddress].owner = sender
         /\ newName # "",
         [r EXCEPT !.agents[agentAddress].name = newName])

\* getAllAgents(), getTotalAgents()
getAllAgents(r) == r.agentList
getTotalAgents(r) == Len(r.agentList)

\* a transaction sent to the registry
RegistryTx(r) ==
  /\ Len(r.agentList) <= MaxList
  /\ evm' = [evm EXCEPT !.registry = r]
  /\ UNCHANGED <<config, provider, signer, contract, startTime, state, handlers,
                 calls, startCalls, now, emitted, ret, hist, held, inflight,
                 sim, ai, chain>>

RegisterAgent(sender, agentAddress, name) ==
  RegistryTx(registerAgent(evm.registry, sender, agentAddress, name,
                           evm.timestamp))

UnregisterAgent(sender, agentAddress) ==
  RegistryTx(unregisterAgent(evm.registry, sender, agentAddress))

UpdateAgentName(sender, agentAddress, newName) ==
  RegistryTx(updateAgentName(evm.registry, sender, agentAddress, newName))

\* ---------------------------------------------------------- AgentFactory

\* the body createAgent and each turn of createAgentsBatch's loop share: a
\* BaseAgent is deployed by the factory, its ownership transferred to the
\* caller, it is initialized and registered, each call made by the factory;
\* ok is false when one of them reverts
createOne(e, sender, name, type) ==
  LET address == CreatedAddress(Len(e.created) + 1)
      deployed == NewBaseAgent(FactoryAddress)
      transferred == transferOwnership(deployed, FactoryAddress, sender)
      initialized ==
        initialize(transferred, FactoryAddress, name, type, e.timestamp)
      registered ==
        registerAgent(e.registry, FactoryAddress, address, name, e.timestamp)
  IN  [ok |-> /\ ~transferred.last.reverted
              /\ ~initialized.last.reverted
              /\ ~registered.last.reverted,
       address |-> address,
       evm |-> [e EXCEPT !.created = Append(@, initialized),
                         !.registry = registered]]

\* the loop of createAgentsBatch over items, pairs of a name and a type
RECURSIVE createAll(_, _, _)
createAll(e, sender, items) ==
  IF items = <<>> THEN [ok |-> TRUE, addresses |-> <<>>, evm |-> e]
  ELSE LET one == createOne(e, sender, items[1][1], items[1][2])
           rest == createAll(one.evm, sender, Tail(items))
       IN  [ok |-> one.ok /\ rest.ok,
            addresses |-> <<one.address>> \o rest.addresses,
            evm |-> rest.evm]

\* a transaction sent to the factory: its effects when nothing reverted,
\* none otherwise
FactoryTx(op, sender, holds, res, addresses) ==
  /\ evm' = IF holds
              THEN [res EXCEPT
                      !.factory = [op |-> op, sender |-> sender,
                                   reverted |-> FALSE,
                                   returned |-> addresses]]
              ELSE [evm EXCEPT
                      !.factory = [op |-> op, sender |-> sender,
                                   reverted |-> TRUE, returned |-> <<>>]]
  /\ UNCHANGED <<config, provider, signer, contract, startTime, state, handlers,
                 calls, startCalls, now, emitted, ret, hist, held, inflight,
                 sim, ai, chain>>

\* createAgent(name, agentType)
CreateAgent(sender, name, type) ==
  /\ Len(evm.registry.agentList) < MaxList
  /\ LET one == createOne(evm, sender, name, type)
     IN  FactoryTx("createAgent", sender, name # "" /\ one.ok, one.evm,
                   <<one.address>>)

\* createAgentsBatch(names, agentTypes), the two arrays of one length
CreateAgentsBatch(sender, items) ==
  /\ Len(evm.registry.agentList) + Len(items) <= MaxList
  /\ LET all == createAll(evm, sender, items)
     IN  FactoryTx("createAgentsBatch", sender, items # <<>> /\ all.ok,
                   all.evm, all.addresses)

\* -------------------------------------------------------------- simulator

\* simulator.getEventEmitter().on(type, handler)
SimOn(type, handler) ==
  /\ Total(sim.listeners, ScenarioTypes) < MaxHandlers
  /\ sim' = [sim EXCEPT !.listeners[type] = Append(@, handler)]
  /\ UNCHANGED <<config, provider, signer, contract, startTime, state, handlers,
                 calls, startCalls, now, emitted, ret, hist, held, inflight>>
  /\ UNCHANGED <<ai, chain, evm>>

\* the listener calls of one this.eventEmitter.emit(event.type, ...)
Deliveries(hs, type) ==
  [i \in 1 .. Len(hs) |->
     [emitter |-> "simulator", handler |-> hs[i], type |-> type]]

\* this.events.push / this.actions.push: the element is appended to the
\* array, and so to every result that holds the same array
Push(s, log, x) ==
  [s EXCEPT
     ![log] = Append(@, x),
     !.runs = [q \in RunIds |->
                 IF @[q].result.shared
                   THEN [@[q] EXCEPT !.result[log] = Append(@, x)]
                   ELSE @[q]]]

\* the 90% share rounded to the nearest integer
successfulActionsRounded(totalActions) == (9 * totalActions + 5) \div 10

\* Math.floor(totalActions * 0.9): a 90% share of the action count, rounded
\* down, whatever the actions were
successfulActionsOf(totalActions) == (9 * totalActions) \div 10

\* calculateResults: the counts of the two logs, the 90% share rounded
\* down, and the two logs themselves, not copies of them
calculateResults(s) ==
  LET totalEvents == Len(s.events)
      totalActions == Len(s.actions)
      successfulActions == successfulActionsOf(totalActions)
  IN  [totalEvents |-> totalEvents,
       totalActions |-> totalActions,
       successfulActions |-> successfulActions,
       failedActions |-> totalActions - successfulActions,
       successRate |-> IF totalActions > 0
                         THEN Norm(successfulActions, totalActions)
                         ELSE <<0, 1>>,
       events |-> s.events,
       actions |-> s.actions,
       shared |-> TRUE]

\* calculateResults and the end of run()
Finish(s, r) ==
  [s EXCEPT !.isRunning = FALSE,
            !.runs[r].pc = "returned",
            !.runs[r].result = calculateResults(s)]

\* a loop that does not wait for the synthetic action before its
\* inter-event sleep
InjectEager(s, r) ==
  LET list == getScenarioEvents(s.scenario)
      k == s.runs[r].k
      ev == list[k + 1]
      hs == s.listeners[ev.type]
  IN  IF k = Len(list) \/ ~s.isRunning THEN Finish(s, r)
      ELSE [Push(s, "events", ev) EXCEPT
              !.delivered = @ \o Deliveries(Invoked(hs), ev.type),
              !.runs[r].k = k + 1,
              !.runs[r].pc = IF Threw(hs) THEN "rejected" ELSE "sleeping"]

\* run(), one turn of the loop up to its first suspension: leaves the loop
\* when the list is exhausted or isRunning is false; otherwise emitEvent
\* appends the event to the log and emits it on the simulator's own emitter,
\* then simulateAgentAction starts its sleep; a listener that throws rejects
\* emitEvent and with it run()
Inject(s, r) ==
  LET list == getScenarioEvents(s.scenario)
      k == s.runs[r].k
      ev == list[k + 1]
      hs == s.listeners[ev.type]
  IN  IF k = Len(list) \/ ~s.isRunning THEN Finish(s, r)
      ELSE [Push(s, "events", ev) EXCEPT
              !.delivered = @ \o Deliveries(Invoked(hs), ev.type),
              !.runs[r].k = k + 1,
              !.runs[r].pc = IF Threw(hs) THEN "rejected" ELSE "acting"]

\* how a run() call stands with its caller
RunOutcome(pc) ==
  IF pc = "returned" THEN "ok"
  ELSE IF pc = "rejected" THEN "HandlerError"
  ELSE "pending"

\* the asynchronous listeners the latest dispatch of s called
Dispatched(s0, s) ==
  LET n == Len(s.delivered) - Len(s0.delivered)
      new == [i \in 1 .. (IF n > 0 THEN n ELSE 0) |->
                s.delivered[Len(s0.delivered) + i].handler]
  IN  AsyncOf(new)

\* run(): sets isRunning, replaces the logs by new empty arrays (the results
\* returned so far keep the old ones), resolves the scenario and enters the
\* loop
SimRun(r) ==
  /\ sim.runs[r].pc \in {"idle", "returned", "rejected"}
  /\ LET s0 == [sim EXCEPT
                  !.isRunning = TRUE,
                  !.events = <<>>,
                  !.actions = <<>>,
                  !.delivered = <<>>,
                  !.runs = [q \in RunIds |->
                              IF q = r
                                THEN [IdleRun EXCEPT
                                        !.pc = "loop",
                                        !.alone =
                                          \A o \in RunIds \ {r} :
                                            sim.runs[o].pc \notin
                                              {"acting", "sleeping"}]
                                ELSE [sim.runs[q] EXCEPT
                                        !.alone = FALSE,
                                        !.result.shared = FALSE]]]
     IN  /\ sim' = Inject(s0, r)
         /\ inflight' = inflight \o Dispatched(s0, sim')
  /\ Len(inflight') <= MaxInflight
  /\ emitted' = <<>>
  /\ ret' = Report("run", RunOutcome(sim'.runs[r].pc), FALSE)
  /\ UNCHANGED <<config, provider, signer, contract, startTime, state, handlers,
                 calls, startCalls, now, hist, held>>
  /\ UNCHANGED <<ai, chain, evm>>

\* the action simulateAgentAction builds for an event
SimAction(ev, success) ==
  [type |-> IF success THEN "buy" ELSE "sell",
   price |-> IF ev.price # 0 THEN ev.price ELSE 1000]

\* simulateAgentAction after its sleep: the synthetic action is appended;
\* emitEvent returns and run() starts the inter-event sleep
SimActed(r, success) ==
  /\ sim.runs[r].pc = "acting"
  /\ LET ev == getScenarioEvents(sim.scenario)[sim.runs[r].k]
         a == SimAction(ev, success)
     IN  sim' = [Push(sim, "actions", a) EXCEPT
                   !.runs[r].pc = "sleeping",
                   !.runs[r].acts = Append(@, a)]
  /\ UNCHANGED <<config, provider, signer, contract, startTime, state, handlers,
                 calls, startCalls, now, emitted, ret, hist, held, inflight>>
  /\ UNCHANGED <<ai, chain, evm>>

\* the inter-event sleep is over: the next turn of the loop
SimWake(r) ==
  /\ sim.runs[r].pc = "sleeping"
  /\ sim' = Inject(sim, r)
  /\ inflight' = inflight \o Dispatched(sim, sim')
  /\ Len(inflight') <= MaxInflight
  /\ emitted' = <<>>
  /\ ret' = Report("run", RunOutcome(sim'.runs[r].pc), FALSE)
  /\ UNCHANGED <<config, provider, signer, contract, startTime, state, handlers,
                 calls, startCalls, now, hist, held>>
  /\ UNCHANGED <<ai, chain, evm>>

\* stop()
SimStop ==
  /\ sim' = [sim EXCEPT
               !.isRunning = FALSE,
               !.runs = [q \in RunIds |->
                           IF @[q].pc \in {"loop", "acting", "sleeping"}
                             THEN [@[q] EXCEPT !.stopped = TRUE]
                             ELSE @[q]]]
  /\ emitted' = <<>>
  /\ ret' = Report("simStop", "ok", FALSE)
  /\ UNCHANGED <<config, provider, signer, contract, startTime, state, handlers,
                 calls, startCalls, now, hist, held, inflight>>
  /\ UNCHANGED <<ai, chain, evm>>

\* ------------------------------------------------------------------ specs

\* execute() and the metrics: init, concurrent execute() calls and the
\* listeners of the two events execute() emits
NextExecute ==
  \/ AInit
  \/ \E c \in CallIds, a \in Actions : Execute(c, a)
  \/ \E c \in CallIds : SubmitResolve(c)
  \/ \E c \in CallIds : SubmitReject(c)
  \/ \E c \in CallIds, r \in Receipts : WaitResolve(c, r)
  \/ \E c \in CallIds : WaitReject(c)
  \/ \E ev \in {ACTION_EXECUTED, ERROR}, h \in Handlers : OnEvent(ev, h)
  \/ \E ev \in {ACTION_EXECUTED, ERROR}, h \in Handlers : OffEvent(ev, h)

InitExecute == Init /\ ~config.triggers /\ held.keep = {}
                    /\ sim.scenario = "normal_trading"

SpecExecute == InitExecute /\ [][NextExecute]_vars

\* execute() calls on an agent whose listeners, once registered, stay and throw
NextSubmit ==
  \/ AInit
  \/ \E c \in CallIds, a \in Actions : Execute(c, a)
  \/ \E c \in CallIds : SubmitResolve(c)
  \/ \E c \in CallIds : SubmitReject(c)
  \/ \E c \in CallIds, r \in Receipts : WaitResolve(c, r)
  \/ \E c \in CallIds : WaitReject(c)
  \/ \E ev \in {ACTION_EXECUTED, ERROR} :
       handlers[ev] = <<>> /\ OnEvent(ev, "hThrow")

SpecSubmit == InitExecute /\ [][NextSubmit]_vars

\* setState({status: s})
StatusPartials ==
  {p \in Partials : /\ p.keys = {"status"}
                     /\ p.data = {}
                     /\ p.lastAction = 0
                     /\ p.contractAddress = 0}

\* the lifecycle and the clock, with setState, init and deploy
NextLifecycle ==
  \/ Start
  \/ StartResume
  \/ Stop
  \/ Pause
  \/ Resume
  \/ Tick
  \/ \E p \in StatusPartials : SetState(p)
  \/ GetState
  \/ AInit
  \/ \E m \in MockAddresses : Deploy(m)
  \/ \E h \in Handlers :
       /\ \A i \in DOMAIN handlers[STARTED] : handlers[STARTED][i] # h
       /\ OnEvent(STARTED, h)

InitLifecycle ==
  Init /\ config.network = "testnet" /\ config.contractAddress = 0
       /\ config.privateKey /\ held.keep = {}
       /\ sim.scenario = "normal_trading"

SpecLifecycle == InitLifecycle /\ [][NextLifecycle]_vars

\* agents of every configuration, initialised or not, deployed again and
\* again with handlers on agent:deployed and agent:initialized
NextDeploy ==
  \/ AInit
  \/ \E m \in MockAddresses : Deploy(m)
  \/ \E h \in Handlers : OnEvent(DEPLOYED, h)
  \/ \E h \in Handlers : OnEvent(INITIALIZED, h)
  \/ \E h \in Handlers : OffEvent(DEPLOYED, h)

InitDeploy == Init /\ held.keep = {} /\ sim.scenario = "normal_trading"

SpecDeploy == InitDeploy /\ [][NextDeploy]_vars

\* agents of every configuration on which init(), deploy() and execute() are
\* called in any order, with handlers on agent:initialized
NextAttach ==
  \/ AInit
  \/ \E m \in MockAddresses : Deploy(m)
  \/ \E c \in CallIds, a \in Actions : Execute(c, a)
  \/ \E c \in CallIds : SubmitReject(c)
  \/ \E h \in Handlers : OnEvent(INITIALIZED, h)

SpecAttach == InitDeploy /\ [][NextAttach]_vars

\* agents of every configuration, initialised or not, whose capability is
\* read, replaced and asked for decisions
NextAI ==
  \/ GetAI
  \/ \E x \in Capabilities : SetAI(x)
  \/ \E d \in AIData : Analyze(d)
  \/ AInit

SpecAI == InitDeploy /\ [][NextAI]_vars

\* the test's setup: listeners are registered on a new chain, one per event
\* at most
ChainRegister ==
  /\ chain.last.op \in {"new", "on"}
  /\ \E t \in ChainEvents, h \in Handlers :
       chain.listeners[t] = <<>> /\ ChainOn(t, h)

\* a MockBlockchain with listeners, started, stopped and reset at any point
\* while its mining loops wake and transactions are sent
NextChain ==
  \/ ChainRegister
  \/ chain.loops < MaxLoops /\ ChainStart
  \/ ChainStop
  \/ ChainWake
  \/ \E st \in TxStatuses : SendTransaction(st, 0)
  \/ \E a \in GeneratedAddresses, st \in TxStatuses : DeployContract(a, st)
  \/ \E a \in ChainAddresses, st \in TxStatuses : CallContract(a, st)
  \/ \E a \in GeneratedAddresses : SetBalance(a)
  \/ ChainReset

SpecChain == InitLifecycle /\ [][NextChain]_vars

\* a MockBlockchain with listeners that is started, stopped and reset at any
\* point, also before a loop that sleeps has woken
NextLoops ==
  \/ ChainRegister
  \/ ChainStart
  \/ ChainStop
  \/ ChainWake
  \/ ChainReset

SpecLoops == InitLifecycle /\ [][NextLoops]_vars

\* a BaseAgent deployed by alice and called by alice and bob in any order,
\* before and after initialize
NextBaseAgent ==
  \/ \E c \in Accounts, n \in AgentNames, t \in AgentTypes : BInitialize(c, n, t)
  \/ \E c \in Accounts, t \in ActionTypes : BExecuteAction(c, t)
  \/ \E c \in Accounts, st \in AgentStatuses : BUpdateStatus(c, st)
  \/ \E c \in Accounts, op \in DOMAIN LifecycleFrom : BLifecycle(c, op)
  \/ \E c \in Accounts, o \in Accounts : BTransferOwnership(c, o)
  \/ NextBlock

SpecBaseAgent == InitLifecycle /\ [][NextBaseAgent]_vars

\* the registry and the factory called by alice and bob: agents registered
\* directly, unregistered, renamed, and created through the factory
BatchItems ==
  {<<>>} \cup {<<x>> : x \in {"TestAgent"} \X AgentTypes}
         \cup {<<x, y>> : x \in {"TestAgent"} \X AgentTypes,
                          y \in AgentNames \X {"DEFI"}}

NextRegistry ==
  \/ \E c \in Accounts, a \in {0} \cup ExternalAgents, n \in AgentNames :
       RegisterAgent(c, a, n)
  \/ \E c \in Accounts, a \in ExternalAgents : UnregisterAgent(c, a)
  \/ \E c \in Accounts, a \in ExternalAgents, n \in AgentNames \cup {"Renamed"} :
       UpdateAgentName(c, a, n)
  \/ \E c \in Accounts, n \in AgentNames, t \in AgentTypes : CreateAgent(c, n, t)
  \/ \E c \in Accounts, items \in BatchItems : CreateAgentsBatch(c, items)
  \/ NextBlock

SpecRegistry == InitLifecycle /\ [][NextRegistry]_vars

\* sequences of start/stop/pause/resume calls as time passes
NextCalls ==
  \/ Start
  \/ StartResume
  \/ Stop
  \/ Pause
  \/ Resume
  \/ Tick

SpecCalls == InitLifecycle /\ [][NextCalls]_vars

\* setState({status}), setState({data}), setState({metrics}) and their unions
NestedPartials ==
  {p \in Partials : /\ p.keys \subseteq {"status", "data", "metrics"}
                     /\ ("status" \in p.keys \/ p.status = "idle")
                     /\ ("data" \in p.keys \/ p.data = {})
                     /\ p.status \in {"idle", "running"}
                     /\ p.lastAction = 0
                     /\ p.contractAddress = 0}

\* a caller that keeps what getState() returned and writes through it, while
\* the agent is started, stopped and has its state set
NextReturned ==
  \/ GetState
  \/ \E p \in NestedPartials : SetState(p)
  \/ \E f \in {"status", "metrics", "data"} : Mutate(f)
  \/ Start
  \/ Stop
  \/ Tick

InitReturned ==
  Init /\ config.network = "testnet" /\ config.contractAddress = 0
       /\ config.privateKey /\ ~config.triggers /\ held.keep = {"returned"}
       /\ sim.scenario = "normal_trading"

SpecReturned == InitReturned /\ [][NextReturned]_vars

InitPayload ==
  Init /\ config.network = "testnet" /\ config.contractAddress = 0
       /\ config.privateKey /\ ~config.triggers /\ held.keep = {"payload"}
       /\ sim.scenario = "normal_trading"

\* setState(partial) for every set of top-level keys
KeyPartials ==
  {p \in Partials : /\ p.status = "paused"
                     /\ ("data" \in p.keys \/ p.data = {})
                     /\ ("data" \notin p.keys \/ p.data # {})
                     /\ p.lastAction = 1
                     /\ p.contractAddress = 2}

\* setState calls with every partial, and reads
NextSetState ==
  \/ \E p \in KeyPartials : SetState(p)
  \/ GetState

SpecSetState == InitPayload /\ [][NextSetState]_vars

\* state_changed handlers that keep their payload, while the agent goes
\* through its lifecycle
NextPayload ==
  \/ \E p \in NestedPartials : SetState(p)
  \/ Start
  \/ Stop
  \/ Pause
  \/ Resume
  \/ Tick

SpecPayload == InitPayload /\ [][NextPayload]_vars

\* asynchronous and throwing handlers on the events of start(), pause() and
\* resume()
NextEmit ==
  \/ \E ev \in {STARTED, PAUSED}, h \in AsyncHandlers \cup {"hThrow"} :
       OnEvent(ev, h)
  \/ Start
  \/ StartResume
  \/ Pause
  \/ Resume
  \/ \E i \in 1 .. MaxInflight : HandlerSettles(i)

SpecEmit == InitLifecycle /\ [][NextEmit]_vars

\* a simulator around an agent: handlers registered on the agent and on the
\* simulator's emitter, run() called again and again, each call after the
\* previous one returned or was rejected, and stop()
Active(r) == sim.runs[r].pc \in {"loop", "acting", "sleeping"}

\* the test's setup: handlers are registered before the simulation is run
Register ==
  /\ \A r \in RunIds : sim.runs[r].pc = "idle"
  /\ \/ \E t \in ScenarioTypes : OnEvent(t, "hOk")
     \/ \E t \in ScenarioTypes, h \in Handlers : SimOn(t, h)

NextSimulator ==
  \/ Register
  \/ SimRun(1)
  \/ \E success \in BOOLEAN : SimActed(1, success)
  \/ SimWake(1)
  \/ SimStop

InitSimulator ==
  Init /\ config.network = "testnet" /\ config.contractAddress = 0
       /\ config.privateKey /\ ~config.triggers /\ held.keep = {}

SpecSimulator == InitSimulator /\ [][NextSimulator]_vars

\* one simulator whose run() is called again while earlier calls have not
\* returned: MaxRuns calls in all, no listeners, every synthetic action a
\* 'buy', stop() at any point
NextRuns ==
  \/ \E r \in RunIds : sim.runs[r].pc = "idle" /\ SimRun(r)
  \/ \E r \in RunIds : SimActed(r, TRUE)
  \/ \E r \in RunIds : SimWake(r)
  \/ SimStop

InitRuns == InitSimulator /\ sim.scenario = "normal_trading"

SpecRuns == InitRuns /\ [][NextRuns]_vars

\* ----------------------------------------------------------------- claims

NoneInFlight == InFlight(calls) = {}

\* the incremental aggregator agrees with a recomputation over the
\* observations updateMetrics was given
AggregatorMatchesObservations ==
  /\ state.metrics.totalActions = hist.obs
  /\ hist.obs > 0 =>
       /\ state.metrics.successRate = Norm(hist.obsSucc, hist.obs)
       /\ state.metrics.avgGasUsed = Norm(hist.obsGas, hist.obs)

\* C1: after any sequence of execute attempts that reached submission,
\* totalActions is the number of attempts, successRate is successes/attempts
\* and avgGasUsed is the mean gas over the attempts (a failure counting 0);
\* before the first attempt the metrics are 0, 1 and 0.
C1_MetricsEquivalence ==
  NoneInFlight =>
    /\ state.metrics.totalActions = hist.attempts
    /\ hist.attempts = 0 =>
         /\ state.metrics.successRate = Rat(1)
         /\ state.metrics.avgGasUsed = Rat(0)
    /\ hist.attempts > 0 =>
         /\ state.metrics.successRate = Norm(hist.confirmed, hist.attempts)
         /\ state.metrics.avgGasUsed = Norm(hist.gasSum, hist.attempts)

\* C2: an emission reaches every handler registered for the event, each
\* once and in order, whether or not an earlier handler threw.
C2_HandlerIsolation ==
  \A i \in DOMAIN emitted : emitted[i].invoked = handlers[emitted[i].type]

\* C3: execute() without a contract handle or without a signer rejects with
\* ExecutionError, leaves the state (metrics, lastAction, status) unchanged
\* and emits nothing; the metrics change only in a step that settles a
\* submitted call.
C3_ExecutePrecondition ==
  [][/\ \A c \in CallIds, a \in Actions :
          (Execute(c, a) /\ (contract = 0 \/ ~signer)) =>
            /\ ret'.outcome = "ExecutionError"
            /\ state' = state
            /\ emitted' = <<>>
     /\ state'.metrics # state.metrics =>
          \E c \in InFlight(calls) : calls'[c].pc = "done"]_vars

C3_Witness ==
  /\ contract = 0 \/ ~signer
  /\ ret = Report("execute", "ExecutionError", TRUE)
  /\ \E c \in CallIds : calls[c].pc = "done"
  /\ state.metrics.totalActions = 0

\* a submitted call settles in this step
Settles(c) == c \in InFlight(calls) /\ calls'[c].pc = "done"

\* C4: a call that passed the precondition records exactly one observation,
\* and it is a success, reported to the caller with the receipt's hash and
\* gas, exactly when the collaborator confirmed the transaction.
C4_OneObservationPerCall ==
  [][\A c \in CallIds :
       Settles(c) =>
         /\ state'.metrics.totalActions = state.metrics.totalActions + 1
         /\ (ret'.outcome = "ok") <=> (hist'.confirmed = hist.confirmed + 1)
         /\ ret'.outcome = "ok" =>
              /\ ret'.value.success
              /\ ret'.value.gasUsed = hist'.gasSum - hist.gasSum]_vars

\* C5: when the submission or the confirmation wait rejects, one failure
\* observation with gas 0 is recorded, agent:error is emitted with the action
\* and the cause's message, lastAction is unchanged and the call rejects with
\* ExecutionError.
C5_FailurePath ==
  [][\A c \in CallIds :
       (Settles(c) /\ hist'.confirmed = hist.confirmed) =>
         /\ state'.metrics = updateMetrics(state.metrics, FALSE, 0)
         /\ state'.lastAction = state.lastAction
         /\ Len(emitted') = 1
         /\ emitted'[1].type = ERROR
         /\ emitted'[1].data.action = calls[c].action
         /\ emitted'[1].data.error \in {"submit failed", "wait failed"}
         /\ ret'.outcome = "ExecutionError"]_vars

\* C6: when execute() calls that were in flight at the same time have all
\* completed, totalActions has grown by the number of calls and
\* successRate * totalActions is the number of successful attempts.
C6_NoLostUpdates ==
  (hist.overlap /\ NoneInFlight) =>
    /\ state.metrics.totalActions = hist.attempts
    /\ RMul(state.metrics.successRate, Rat(state.metrics.totalActions))
         = Rat(hist.confirmed)

\* the lifecycle table: operation, status before, status after
LifecycleTable ==
  {<<"start", "idle", "running">>, <<"start", "paused", "running">>,
   <<"stop", "running", "idle">>, <<"pause", "running", "paused">>,
   <<"resume", "paused", "running">>}

\* C7: every change of status is a row of the lifecycle table, made by the
\* row's operation; no other operation changes the status.
C7_StatusFollowsTable ==
  [][state'.status # state.status =>
       <<ret'.op, state.status, state'.status>> \in LifecycleTable]_vars

\* C8: once the status is error, start(), stop(), pause() and resume() leave
\* it error.
C8_ErrorIsAbsorbing ==
  [][(state.status = "error" /\ (Start \/ Stop \/ Pause \/ Resume)) =>
       state'.status = "error"]_vars

\* the calls the claim names no-ops
NoOpCall ==
  \/ Start /\ state.status = "running"
  \/ Stop /\ state.status # "running"
  \/ Pause /\ state.status # "running"
  \/ Resume /\ state.status # "paused"

C10_UptimeIsRunningTime ==
  state.status # "running" => state.metrics.uptime = hist.runTime

\* C11: getState() returns a defensive copy: writing through a returned value
\* (its status, its metrics, its data) never changes the agent's state, and
\* no later agent operation changes a value returned earlier.
Mutating == \E f \in {"status", "metrics", "data"} : Mutate(f)

C11_DefensiveCopy ==
  [][held.returned.taken =>
       /\ (Mutating => state' = state)
       /\ ((~Mutating /\ ~GetState) =>
             held'.returned.value = held.returned.value)]_vars

\* C12: setState(partial) replaces exactly the top-level keys present in
\* partial, each by the partial's value as a whole, and leaves every other
\* top-level key unchanged: with data {x:1}, setState({data:{y:2}}) leaves
\* data equal to exactly {y:2}.
C12_ShallowReplace ==
  [][\A p \in KeyPartials :
       SetState(p) =>
         /\ \A k \in StateKeys \ p.keys : state'[k] = state[k]
         /\ \A k \in p.keys : state'[k] = p[k]
         /\ (state.data = {<<"x", 1>>} /\ "data" \in p.keys
                /\ p.data = {<<"y", 2>>}) => state'.data = {<<"y", 2>>}]_vars

\* setState({data:{y:2}}) has just replaced a data bag that was {x:1}
C12_Witness ==
  /\ ret.op = "setState"
  /\ held.oldState.taken
  /\ held.oldState.value.data = {<<"x", 1>>}
  /\ state.data = {<<"y", 2>>}

\* C13: every setState call emits exactly one state_changed event whose
\* payload holds oldState, the state just before the call, and newState, the
\* state just after it; neither payload value changes when the agent is
\* modified afterwards by start, stop, pause or resume.
LifecycleStep == Start \/ Stop \/ Pause \/ Resume

C13_PayloadSnapshots ==
  [][/\ ((\E p \in NestedPartials : SetState(p)) =>
           /\ Len(emitted') = 1
           /\ emitted'[1].type = STATE_CHANGED
           /\ held'.oldState.value = state
           /\ held'.newState.value = state')
     /\ ((held.newState.taken /\ LifecycleStep) =>
           /\ held'.oldState.value = held.oldState.value
           /\ held'.newState.value = held.newState.value)]_vars

\* C14: each status transition performed by start(), stop(), pause() or
\* resume() emits exactly one lifecycle event named for that operation, also
\* when calls overlap: a start() suspended at subscribeToEvents owes its one
\* agent:started and emits it when it resumes, a call that makes no
\* transition emits nothing; agent:stopped carries the uptime stored in
\* metrics after the stop.
OneEvent(type) == Len(emitted') = 1 /\ emitted'[1].type = type

Transition == state'.status # state.status

C14_OneEventPerTransition ==
  [][/\ ((Start /\ Transition) =>
           IF config.triggers
             THEN emitted' = <<>> /\ startCalls' = startCalls + 1
             ELSE OneEvent(STARTED) /\ startCalls' = startCalls)
     /\ (StartResume => (OneEvent(STARTED) /\ startCalls' = startCalls - 1))
     /\ ((Stop /\ Transition) =>
           (OneEvent(STOPPED) /\ emitted'[1].data.t = state'.metrics.uptime))
     /\ ((Pause /\ Transition) => OneEvent(PAUSED))
     /\ ((Resume /\ Transition) => OneEvent(RESUMED))
     /\ (((Start \/ Stop \/ Pause \/ Resume) /\ ~Transition) =>
           (emitted' = <<>> /\ startCalls' = startCalls))]_vars

\* a second start() returned early while the first is still suspended
C14_Witness == ret.op = "start" /\ ret.early /\ startCalls = 1

\* C15: a throwing handler does not abort the emitter: the operation whose
\* emission reached a handler that threw reports success to its caller, and
\* no run() of the simulator is rejected.
C15_ThrowingHandlerIsolated ==
  /\ \A i \in 1 .. Len(emitted) : emitted[i].threw => ret.outcome = "ok"
  /\ \A r \in RunIds : sim.runs[r].pc # "rejected"

\* C16: emission is fire-and-forget for asynchronous handlers: an emission
\* in which no handler throws synchronously starts every asynchronous handler
\* registered for the event, in registration order, whatever is still in
\* flight, and the emitting operation reports to its caller without waiting
\* for any of them.
IsAsync(h) == h \in AsyncHandlers

Times(seq, h) == Cardinality({j \in DOMAIN seq : seq[j] = h})

C17_ExactInvocation ==
  \A i \in DOMAIN emitted :
    LET hs == handlers[emitted[i].type]
        called == emitted[i].invoked
    IN  /\ \A h \in Handlers \cup AsyncHandlers : Times(called, h) = Times(hs, h)
        /\ \A j \in DOMAIN called : j \in DOMAIN hs /\ called[j] = hs[j]

\* C18: offEvent(name, handler) removes the first registration of handler
\* for name, keeps every other registration in order, and changes nothing
\* when handler is not registered for name.
RECURSIVE RemoveFirst(_, _)
RemoveFirst(hs, handler) ==
  IF hs = <<>> THEN <<>>
  ELSE IF Head(hs) = handler THEN Tail(hs)
  ELSE <<Head(hs)>> \o RemoveFirst(Tail(hs), handler)

C18_OffRemovesOne ==
  [][\A ev \in {ACTION_EXECUTED, ERROR}, h \in Handlers :
       OffEvent(ev, h) =>
         /\ handlers'[ev] = RemoveFirst(handlers[ev], h)
         /\ \A other \in EventNames \ {ev} : handlers'[other] = handlers[other]
         /\ ret'.outcome = "ok"]_vars

\* C19: run() drives the scenario into the agent: when a run has returned,
\* every handler registered on the agent for a type has been invoked once for
\* every event of that type in the run's log.
Occurrences(seq, type) == Cardinality({i \in DOMAIN seq : seq[i].type = type})

AgentDeliveries(type) ==
  Cardinality({i \in DOMAIN sim.delivered :
                 /\ sim.delivered[i].emitter = "agent"
                 /\ sim.delivered[i].type = type})

C19_RunDrivesAgent ==
  \A r \in RunIds :
    (sim.runs[r].pc = "returned" /\ sim.runs[r].alone) =>
      \A t \in ScenarioTypes :
        AgentDeliveries(t) = Len(handlers[t]) * Occurrences(sim.events, t)

\* C20: within one run() (one that no other run() overlaps) the
\* event log is a prefix of the scenario's list, |actions| <= |events| <=
\* |actions| + 1, an event is appended only when the action of the previous
\* event is in the log and the inter-event sleep is over, and the two logs
\* have the same length when run() returns.
Sequential(s, r) ==
  LET list == getScenarioEvents(s.scenario)
      k == s.runs[r].k
  IN  /\ k <= Len(list)
      /\ s.events = SubSeq(list, 1, k)
      /\ Len(s.actions) <= Len(s.events)
      /\ Len(s.events) <= Len(s.actions) + 1
      /\ s.runs[r].pc = "returned" => Len(s.actions) = Len(s.events)

C20_SequentialInjection ==
  [][\A r \in RunIds :
       sim'.runs[r].alone =>
         /\ Sequential(sim', r)
         /\ (sim.runs[r].alone /\ Len(sim'.events) = Len(sim.events) + 1) =>
              /\ sim.runs[r].pc = "sleeping"
              /\ Len(sim.actions) = Len(sim.events)]_vars

\* a run of normal_trading went through its three events and returned
C20_Witness ==
  \E r \in RunIds :
    /\ sim.runs[r].pc = "returned"
    /\ sim.runs[r].alone
    /\ Len(sim.events) = 3
    /\ Len(sim.actions) = 3

\* the scenario events a run() call has taken so far
OwnEvents(s, r) == SubSeq(getScenarioEvents(s.scenario), 1, s.runs[r].k)

\* C21: stop() is cooperative cancellation: once stop() has been called
\* during a run, that run takes no later scenario event (none is appended to
\* the log or dispatched), it completes at most the event in progress, and
\* the result it returns covers only the events processed so far.
C21_StopCancels ==
  [][\A r \in RunIds :
       (sim.runs[r].stopped /\ sim'.runs[r].stopped) =>
         /\ sim'.runs[r].k = sim.runs[r].k
         /\ sim'.runs[r].pc \in {sim.runs[r].pc, "sleeping", "returned"}
         /\ (sim.runs[r].pc # "returned" /\ sim'.runs[r].pc = "returned") =>
              sim'.runs[r].result.totalEvents = sim.runs[r].k]_vars

\* C22: the result of run() has totalEvents = |event log|, totalActions =
\* |action log|, successfulActions = floor(0.9 * totalActions), failedActions
\* = totalActions - successfulActions and successRate = successfulActions /
\* totalActions (0 without actions), whatever the outcomes of the synthetic
\* actions; a normal_trading run that was not stopped gives 3, 3 and 2.
ResultConsistent(res, events, actions) ==
  /\ res.totalEvents = Len(events)
  /\ res.totalActions = Len(actions)
  /\ 10 * res.successfulActions <= 9 * res.totalActions
  /\ 9 * res.totalActions < 10 * (res.successfulActions + 1)
  /\ res.failedActions = res.totalActions - res.successfulActions
  /\ res.successRate[2] > 0
  /\ res.successRate[1] * res.totalActions =
       res.successfulActions * res.successRate[2]
  /\ res.totalActions = 0 => res.successRate = <<0, 1>>

C22_ResultFields ==
  \A r \in RunIds :
    sim.runs[r].pc = "returned" =>
      LET res == sim.runs[r].result
      IN  /\ ResultConsistent(res, sim.events, sim.actions)
          /\ (sim.scenario = "normal_trading" /\ ~sim.runs[r].stopped) =>
               /\ res.totalEvents = 3
               /\ res.totalActions = 3
               /\ res.successfulActions = 2
               /\ res.successRate = <<2, 3>>

\* a complete normal_trading run all of whose actions were 'sell' reports 2
\* successful actions
C22_Witness ==
  /\ sim.scenario = "normal_trading"
  /\ sim.runs[1].pc = "returned"
  /\ ~sim.runs[1].stopped
  /\ \A i \in DOMAIN sim.actions : sim.actions[i].type = "sell"
  /\ sim.runs[1].result.successfulActions = 2
  /\ sim.runs[1].result.failedActions = 1

\* C23: a simulator configured with a scenario name that is not in the
\* catalog replays the normal_trading list: its log is always a prefix of
\* the three price_change events of normal_trading, a run that was not
\* stopped returns a result with exactly these three events, and run() fails
\* only if a listener threw.
IsPrefix(p, q) == Len(p) <= Len(q) /\ p = SubSeq(q, 1, Len(p))

C24_RunReturns ==
  [][\A r \in RunIds :
       Active(r) =>
         /\ sim'.runs[r].k <= Len(getScenarioEvents(sim.scenario))
         /\ \/ sim'.runs[r].pc \in {"acting", "sleeping"}
            \/ /\ sim'.runs[r].pc = "returned"
               /\ ~sim'.isRunning
               /\ sim'.runs[r].result.shared]_vars

\* C25: each run owns its logs: the events and actions in the result of a
\* run() call are, when it returns and ever after, exactly the scenario
\* events that call took and the actions it produced, also when run() calls
\* overlap on one simulator.
C25_RunOwnsLogs ==
  \A r \in RunIds :
    sim.runs[r].pc = "returned" =>
      /\ sim.runs[r].result.events = OwnEvents(sim, r)
      /\ sim.runs[r].result.actions = sim.runs[r].acts

\* C26: a deploy() that raises DeploymentError, for want of a signer or
\* because the deployment failed, leaves the contract address of the config
\* and of the state as they were; the address is stored only by a deploy()
\* that reports success.
DeployStep == \E m \in MockAddresses : Deploy(m)

C26_FailedDeployStoresNothing ==
  [][(DeployStep /\ ret'.outcome # "ok") =>
       /\ config'.contractAddress = config.contractAddress
       /\ state'.contractAddress = state.contractAddress]_vars

\* C27: agent.ai is never null: every read of agent.ai yields a capability,
\* the supplied one once setAI(x) was called (also when the default had been
\* created before) and the default one otherwise; while none has been
\* supplied, analyze resolves for every input to 'hold' with confidence 0.5.
Supplied == ai.aiInterface \in Capabilities

C27_AIAlwaysAvailable ==
  [][/\ ai'.got # "undefined"
     /\ (GetAI \/ \E d \in AIData : Analyze(d)) =>
          ai'.got = IF Supplied THEN ai.aiInterface ELSE "default"
     /\ \A d \in AIData :
          (Analyze(d) /\ ~Supplied) =>
            /\ ai'.decision.action = "hold"
            /\ ai'.decision.confidence = <<1, 2>>
     /\ \A x \in Capabilities : SetAI(x) => ai'.aiInterface = x]_vars

\* the supplied capability was read after the default one had been created
C27_Witness ==
  ai.created /\ ai.aiInterface = "aiSell" /\ ai.got = "aiSell"
    /\ ai.decision.action = "sell"

\* C28: the block list of a MockBlockchain is never empty, the block at
\* index i (from 0) has number i, and the number of the latest block is
\* currentBlockNumber, whatever the interleaving of mining, transactions,
\* deployments, calls and resets.
C28_BlockNumbers ==
  /\ chain.blocks # <<>>
  /\ \A i \in DOMAIN chain.blocks : chain.blocks[i].number = i - 1
  /\ chain.blocks[Len(chain.blocks)].number = chain.currentBlockNumber

\* reset() was called on a running chain whose mining loop is asleep
C28_Witness ==
  /\ chain.last.op = "reset"
  /\ chain.isRunning
  /\ chain.loops > 0
  /\ Len(chain.blocks) = 1

\* C29: blocks are appended only while the chain is running: no block is
\* appended before the first start() or after stop() until start() is called
\* again.
C29_MinesOnlyWhileRunning ==
  [][Len(chain'.blocks) > Len(chain.blocks) => chain.isRunning]_vars

\* C30: sendTransaction appends exactly one transaction to the last block of
\* the list and emits exactly one 'transaction' event, whatever the status
\* drawn; the number of blocks, the earlier blocks, currentBlockNumber, the
\* accounts and the contracts are unchanged.
C30_SendTransactionFrame ==
  [][\A st \in TxStatuses :
       SendTransaction(st, 0) =>
         LET n == Len(chain.blocks)
         IN  /\ Len(chain'.blocks) = n
             /\ chain'.blocks[n].number = chain.blocks[n].number
             /\ chain'.blocks[n].transactions =
                  Append(chain.blocks[n].transactions, Tx(st, 0))
             /\ \A i \in 1 .. n - 1 : chain'.blocks[i] = chain.blocks[i]
             /\ Len(chain'.events) = 1
             /\ chain'.events[1].type = "transaction"
             /\ chain'.currentBlockNumber = chain.currentBlockNumber
             /\ chain'.accounts = chain.accounts
             /\ chain'.contracts = chain.contracts
             /\ chain'.isRunning = chain.isRunning]_vars

\* a failed transaction was sent when the list had two blocks, the first of
\* them holding a transaction
C30_Witness ==
  /\ chain.last.op = "sendTransaction"
  /\ Len(chain.blocks) = 2
  /\ Len(chain.blocks[1].transactions) = 1
  /\ chain.blocks[2].transactions = <<Tx("failed", 0)>>

\* C31: reset() returns the ledger to that of a new chain: one block (number
\* 0, no transactions), currentBlockNumber 0, no accounts and no contracts,
\* so that getStats() reports 1 block and 0 of everything else and
\* callContract finds no contract under any address.
C31_ResetToGenesis ==
  [][/\ ChainReset =>
          /\ chain'.blocks = <<[number |-> 0, transactions |-> <<>>]>>
          /\ chain'.currentBlockNumber = 0
          /\ chain'.accounts = {}
          /\ chain'.contracts = {}
          /\ getStats(chain') =
               [blockNumber |-> 0, totalBlocks |-> 1, totalTransactions |-> 0,
                totalAccounts |-> 0, totalContracts |-> 0]
     /\ \A a \in ChainAddresses, st \in TxStatuses :
          (chain.last.op = "reset" /\ CallContract(a, st)) =>
            /\ chain'.last.outcome = "Contract not found"
            /\ chain'.blocks = chain.blocks]_vars

\* reset() was called on a chain that had stored a contract and has a
\* transaction listener
C31_Witness ==
  /\ chain.last.op = "reset"
  /\ chain.deployed # {}
  /\ chain.contracts = {}
  /\ chain.listeners.transaction # <<>>

\* C32: callContract on an address that is not in the contract map throws
\* 'Contract not found', appends no transaction and emits nothing;
\* deployContract adds the address it returns to the map and appends exactly
\* one transaction; callContract on a mapped address appends exactly one
\* transaction and returns success iff the status of that transaction is
\* success.
Appended(c0, c) ==
  LET n == Len(c0.blocks)
  IN  IF Len(c.blocks) = n
           /\ (\A i \in 1 .. n - 1 : c.blocks[i] = c0.blocks[i])
           /\ Len(c.blocks[n].transactions) =
                Len(c0.blocks[n].transactions) + 1
        THEN {c.blocks[n].transactions[Len(c.blocks[n].transactions)]}
        ELSE {}

C32_ContractCalls ==
  [][/\ chain'.last.op = "callContract" =>
          \A a \in ChainAddresses, st \in TxStatuses :
            CallContract(a, st) =>
              IF a \notin chain.contracts
                THEN /\ chain'.last.outcome = "Contract not found"
                     /\ chain'.blocks = chain.blocks
                     /\ chain'.events = <<>>
                     /\ chain'.contracts = chain.contracts
                ELSE /\ Appended(chain, chain') = {Tx(st, a)}
                     /\ chain'.contracts = chain.contracts
                     /\ chain'.last.outcome = "ok" =>
                          (chain'.returned.success <=> st = "success")
     /\ chain'.last.op = "deployContract" =>
          \A a \in ChainAddresses, st \in TxStatuses :
            DeployContract(a, st) =>
              /\ chain'.contracts = chain.contracts \cup {a}
              /\ Appended(chain, chain') = {Tx(st, 0)}
              /\ chain'.last.outcome = "ok" => chain'.returned.address = a]_vars

\* a call to a deployed contract returned failure for a failed transaction
C32_Witness ==
  /\ chain.last = [op |-> "callContract", outcome |-> "ok"]
  /\ ~chain.returned.success
  /\ \E i \in DOMAIN chain.blocks :
       \E j \in DOMAIN chain.blocks[i].transactions :
         chain.blocks[i].transactions[j] = Tx("failed", 1)

\* C38: every change of the BaseAgent's status follows the lifecycle graph
\* (IDLE or PAUSED to RUNNING by start, RUNNING to IDLE by stop, RUNNING to
\* PAUSED by pause, PAUSED to RUNNING by resume, any to ERROR by
\* emergencyStop) and is made by the owner; a call that reverts leaves the
\* status unchanged; nothing moves the contract out of ERROR.
LifecycleGraph ==
  {<<"start", "IDLE", "RUNNING">>, <<"start", "PAUSED", "RUNNING">>,
   <<"stop", "RUNNING", "IDLE">>, <<"pause", "RUNNING", "PAUSED">>,
   <<"resume", "PAUSED", "RUNNING">>}
    \cup {<<"emergencyStop", st, "ERROR">> : st \in AgentStatuses}

C38_StatusFollowsGraph ==
  [][LET a == evm.agent
         b == evm'.agent
     IN  /\ b.info.status # a.info.status =>
              /\ <<b.last.op, a.info.status, b.info.status>> \in LifecycleGraph
              /\ b.last.sender = a.owner
              /\ a.info.status # "ERROR"
         /\ (b # a /\ b.last.reverted) => b.info.status = a.info.status]_vars

\* C39: executeAction succeeds only for the owner, in status RUNNING, with a
\* non-empty action type; a successful call adds 1 to totalActions and marks
\* one new hash as executed, a reverted one changes neither; totalActions
\* never decreases and equals the number of successful executeAction calls
\* since initialize.
ExecuteActionStep ==
  \E c \in Accounts, t \in ActionTypes : BExecuteAction(c, t)

C39_TotalActionsCounts ==
  [][LET a == evm.agent
         b == evm'.agent
     IN  /\ (ExecuteActionStep /\ ~b.last.reverted) =>
              /\ b.last.sender = a.owner
              /\ a.info.status = "RUNNING"
              /\ b.info.totalActions = a.info.totalActions + 1
              /\ Cardinality(b.executedActions) =
                   Cardinality(a.executedActions) + 1
              /\ a.executedActions \subseteq b.executedActions
         /\ (ExecuteActionStep /\ b.last.reverted) =>
              /\ b.info.totalActions = a.info.totalActions
              /\ b.executedActions = a.executedActions
         /\ b.info.totalActions >= a.info.totalActions
         /\ b.info.totalActions = b.actions]_vars

\* C33: createAgent(name, agentType) with a non-empty name succeeds for any
\* caller and returns the address of a new BaseAgent that is initialized with
\* that name and type (status IDLE, totalActions 0), owned by the caller and
\* active in the registry; createAgentsBatch does so for every element.
CreatedAs(address, sender, name, type) ==
  \E i \in DOMAIN evm'.created :
    /\ address = CreatedAddress(i)
    /\ i > Len(evm.created)
    /\ evm'.created[i].owner = sender
    /\ evm'.created[i].info.name = name
    /\ evm'.created[i].info.agentType = type
    /\ evm'.created[i].info.status = "IDLE"
    /\ evm'.created[i].info.totalActions = 0
    /\ evm'.created[i].info.createdAt # 0
    /\ evm'.registry.agents[address].active
    /\ evm'.registry.agents[address].name = name

C33_FactoryCreates ==
  [][/\ \A c \in Accounts, n \in AgentNames \ {""}, t \in AgentTypes :
          CreateAgent(c, n, t) =>
            /\ ~evm'.factory.reverted
            /\ Len(evm'.factory.returned) = 1
            /\ CreatedAs(evm'.factory.returned[1], c, n, t)
     /\ \A c \in Accounts, items \in BatchItems :
          (/\ CreateAgentsBatch(c, items)
           /\ items # <<>>
           /\ \A i \in DOMAIN items : items[i][1] # "") =>
            /\ ~evm'.factory.reverted
            /\ Len(evm'.factory.returned) = Len(items)
            /\ \A i \in DOMAIN items :
                 CreatedAs(evm'.factory.returned[i], c, items[i][1],
                           items[i][2])]_vars

\* C40: the registry's list matches its registrations: getAllAgents() holds
\* every active agent exactly once and no agent that is not active,
\* getTotalAgents() is the number of active agents, and only the account that
\* registered an agent unregisters or renames it.
ActiveAgents(r) == {a \in AgentAddresses : r.agents[a].active}

C40_ListMatchesRegistrations ==
  LET r == evm.registry
      list == getAllAgents(r)
  IN  /\ {list[i] : i \in DOMAIN list} = ActiveAgents(r)
      /\ \A i, j \in DOMAIN list : list[i] = list[j] => i = j
      /\ getTotalAgents(r) = Cardinality(ActiveAgents(r))

\* C37: at most one block-minting loop is active in a MockBlockchain at any
\* time, whatever the sequence of start() and stop() calls, so that at most one
\* block is appended per block interval
C37_OneMiningLoop == chain.loops <= 1

\* C34: state.lastAction is the action of the most recently completed
\* successful execute(): an execute() that resolves stores its action, also
\* when other calls were submitted after it, and nothing else changes
\* lastAction, neither a failed nor a precondition-rejected execute().
C34_LastActionIsLastSuccess ==
  [][/\ \A c \in CallIds :
          (Settles(c) /\ ret'.outcome = "ok") =>
            state'.lastAction = calls[c].action
     /\ (~ \E c \in CallIds : Settles(c) /\ ret'.outcome = "ok") =>
          state'.lastAction = state.lastAction]_vars

\* C35: the contract handle execute() requires is attached only by init(), and
\* only with a contractAddress configured: execute() passes its precondition
\* iff an init() ran while a privateKey and a contractAddress were configured;
\* deploy() stores the address on config and state and attaches no handle, so
\* execute() after init() and deploy() raises ExecutionError until the next
\* init().
ExecuteStep == \E c \in CallIds, a \in Actions : Execute(c, a)

Reported(event) ==
  CASE event \in {STARTED, RESUMED} -> "running"
    [] event = STOPPED -> "idle"
    [] event = PAUSED -> "paused"

C36_EventsFollowStatus ==
  [][startCalls' = 0 =>
       IF emitted' # <<>> /\ emitted' # emitted
         THEN state'.status = Reported(emitted'[Len(emitted')].type)
         ELSE startCalls = 0 => state'.status = state.status]_vars

====
